---- MODULE Spec2Model ----
(***************************************************************************)
(* Stabilization OS: the task store's status transitions (db.ts), the     *)
(* actionability predicates, the scoring function and the Today-stack     *)
(* selection (buildStabilizerStackSplit).                                  *)
(*                                                                         *)
(* Time is counted in whole days: an ISO timestamp is the number of days  *)
(* since the model's epoch, so (new Date(d).getTime() - Date.now()) /     *)
(* 86_400_000 is d - now.  moneyImpact is drawn from multiples of 20, so  *)
(* moneyImpact / 20 is exact in the integers.                              *)
(***************************************************************************)
EXTENDS Integers, Sequences, FiniteSets, TLC

VARIABLES
    db,                         \* db.tasks: task id -> stored Task
    trip,                       \* per task: how far the done/archive/undo round trip has come
    now,                        \* Date.now() / nowISO(), in days
    task,                       \* scoreTask / isWaiting / isActionable: the Task argument
    categoryKind,               \* scoreTask: the categoryKind argument
    availableMinutesRemaining,  \* scoreTask: the remaining budget argument
    tasks,                      \* buildStabilizerStackSplit: the tasks argument
    availableMinutes,           \* buildStabilizerStackSplit: the budget argument
    maxTasks,                   \* buildStabilizerStackSplit: the maxTasks argument
    ret,                        \* the function the last step called and what it returned
    timerState,                 \* db.timerState: the "active" record, NoTimer when there is none
    timeEntries,                \* db.timeEntries: the entries in the order they were added
    ran,                        \* per task: the seconds its finished timer sessions ran
    dailyCapacity,              \* db.dailyCapacity: the set of stored records
    habitLogs,                  \* db.habitLogs: the set of stored records
    calls                       \* the async calls that have read and not yet written

vars == <<db, trip, now, task, categoryKind, availableMinutesRemaining,
          tasks, availableMinutes, maxTasks, ret, timerState,
          timeEntries, ran, dailyCapacity, habitLogs, calls>>

\* An optional field that is absent (estimateMinutes?: number, nextActionAt?: string, ...).
Undefined == -1

\* ---------------------------------------------------------------- bounds

\* Timestamps run over 0..MaxTime days.
MaxTime == 1
\* The longest task list handed to buildStabilizerStackSplit.
MaxLen == 3
\* maxTasks is drawn from 0..MaxStack.
MaxStack == 2
\* The longest list of candidates handed to the selection loop.
MaxPool == 4
\* For the selection loop maxTasks is drawn from 0..MaxSlots.
MaxSlots == 3
\* Time entries the store may hold.
MaxEntries == 2

\* ---------------------------------------------------------------- types

TaskStatus == {"BACKLOG", "TODAY", "IN_PROGRESS", "PENDING", "DONE", "ARCHIVED"}

TaskDomain == {"LIFE_ADMIN", "BUSINESS"}

CategoryKind == {"LEGAL", "MONEY", "MAINTENANCE", "CAREGIVER"}

\* The category table the stack is built against; a task may also name a
\* category that is not in it ("cat-gone").
categories ==
    <<[id |-> "cat-legal", kind |-> "LEGAL"],
      [id |-> "cat-money", kind |-> "MONEY"],
      [id |-> "cat-maint", kind |-> "MAINTENANCE"],
      [id |-> "cat-care", kind |-> "CAREGIVER"]>>

\* catMap.get(categoryId)?.kind: "" stands for undefined.
kindOf(cats, categoryId) ==
    IF \E i \in 1..Len(cats) : cats[i].id = categoryId
    THEN LET i == CHOOSE j \in 1..Len(cats) :
                      /\ cats[j].id = categoryId
                      /\ \A k \in (j+1)..Len(cats) : cats[k].id # categoryId
         IN cats[i].kind
    ELSE ""

Min(a, b) == IF a <= b THEN a ELSE b

Max(a, b) == IF a >= b THEN a ELSE b

\* ---------------------------------------------------------------- predicates

isWaiting(t, n) ==
    /\ t.status = "PENDING"
    /\ t.nextActionAt # Undefined
    /\ t.nextActionAt > n

\* isActionable with the boundary missed: `<` for `<=`.
isActionable_strict(t, n) ==
    IF t.status = "DONE" \/ t.status = "ARCHIVED" THEN FALSE
    ELSE IF t.status # "PENDING" THEN TRUE
    ELSE t.nextActionAt = Undefined \/ t.nextActionAt < n

isActionable(t, n) ==
    IF t.status = "DONE" \/ t.status = "ARCHIVED" THEN FALSE
    ELSE IF t.status # "PENDING" THEN TRUE
    ELSE t.nextActionAt = Undefined \/ t.nextActionAt <= n

\* ---------------------------------------------------------------- scoring

\* KIND_WEIGHTS with MONEY weighted like LEGAL.
KIND_WEIGHTS_moneyAsLegal(kind) ==
    CASE kind = "LEGAL" -> 40
      [] kind = "MONEY" -> 40
      [] kind = "MAINTENANCE" -> 10
      [] kind = "CAREGIVER" -> 5
      [] OTHER -> 0

KIND_WEIGHTS(kind) ==
    CASE kind = "LEGAL" -> 40
      [] kind = "MONEY" -> 30
      [] kind = "MAINTENANCE" -> 10
      [] kind = "CAREGIVER" -> 5
      [] OTHER -> 0

\* dueDateScore with a third tier for a dueDate within 14 days.
dueDateScore_within14(t, n) ==
    IF t.dueDate = Undefined THEN 0
    ELSE IF t.dueDate - n <= 3 THEN 35
    ELSE IF t.dueDate - n <= 7 THEN 25
    ELSE IF t.dueDate - n <= 14 THEN 10
    ELSE 0

dueDateScore(t, n) ==
    IF t.dueDate = Undefined THEN 0
    ELSE IF t.dueDate - n <= 3 THEN 35
    ELSE IF t.dueDate - n <= 7 THEN 25
    ELSE 0

softDeadlineScore(t, n) ==
    IF t.softDeadline # Undefined /\ t.softDeadline - n <= 7 THEN 15 ELSE 0

statusScore(t) ==
    (IF t.status = "IN_PROGRESS" THEN 20 ELSE 0)
    + (IF t.status = "TODAY" THEN 50 ELSE 0)

sizeScore(t) ==
    LET est == IF t.estimateMinutes = Undefined THEN 30 ELSE t.estimateMinutes
    IN IF est <= 15 THEN 12 ELSE IF est <= 30 THEN 8 ELSE 0

moneyScore(t) ==
    IF t.moneyImpact # Undefined /\ t.moneyImpact > 0
    THEN Min(20, t.moneyImpact \div 20)
    ELSE 0

\* overCapacity without the `availableMinutesRemaining > 0` guard.
overCapacity_noZeroGuard(t, remaining) ==
    /\ t.estimateMinutes # Undefined
    /\ t.estimateMinutes # 0
    /\ t.estimateMinutes > remaining

\* `task.estimateMinutes && ...`: an estimate of 0 is falsy, like a missing one.
overCapacity(t, remaining) ==
    /\ t.estimateMinutes # Undefined
    /\ t.estimateMinutes # 0
    /\ t.estimateMinutes > remaining
    /\ remaining > 0

\* scoreTask without the blockedByTaskIds exclusion.
scoreTask_noBlocked(t, kind, remaining, n) ==
    IF ~isActionable(t, n) THEN -1
    ELSE IF overCapacity(t, remaining) THEN -1
    ELSE KIND_WEIGHTS(kind) + dueDateScore(t, n) + softDeadlineScore(t, n)
         + statusScore(t) + sizeScore(t) + moneyScore(t)

scoreTask(t, kind, remaining, n) ==
    IF ~isActionable(t, n) THEN -1
    ELSE IF t.blockedByTaskIds # {} THEN -1
    ELSE IF overCapacity(t, remaining) THEN -1
    ELSE KIND_WEIGHTS(kind) + dueDateScore(t, n) + softDeadlineScore(t, n)
         + statusScore(t) + sizeScore(t) + moneyScore(t)

\* ---------------------------------------------------------------- selection

\* poolOf without the domain filter.
poolOf_anyDomain(ts, n) == SelectSeq(ts, LAMBDA t : isActionable(t, n))

\* tasks.filter((t) => t.domain === "LIFE_ADMIN" && isActionable(t))
poolOf(ts, n) ==
    SelectSeq(ts, LAMBDA t : t.domain = "LIFE_ADMIN" /\ isActionable(t, n))

\* pinnedOf that leaves blocked tasks to the scored tier.
pinnedOf_unblocked(pool, maxT) ==
    LET today == SelectSeq(pool, LAMBDA t : t.status = "TODAY" /\ t.blockedByTaskIds = {})
    IN SubSeq(today, 1, Min(maxT, Len(today)))

\* pool.filter((t) => t.status === "TODAY").slice(0, maxTasks), maxTasks >= 0
pinnedOf(pool, maxT) ==
    LET today == SelectSeq(pool, LAMBDA t : t.status = "TODAY")
    IN SubSeq(today, 1, Min(maxT, Len(today)))

idsOf(ts) == {ts[i].id : i \in 1..Len(ts)}

\* `task.estimateMinutes ?? 15`: only a missing estimate defaults, 0 stays 0.
estimateOr15(t) == IF t.estimateMinutes = Undefined THEN 15 ELSE t.estimateMinutes

RECURSIVE sumEstimates(_)
sumEstimates(ts) ==
    IF ts = <<>> THEN 0 ELSE estimateOr15(Head(ts)) + sumEstimates(Tail(ts))

\* insertByScore that puts x before the elements of its own score.
RECURSIVE insertByScore_unstable(_, _)
insertByScore_unstable(sorted, x) ==
    IF sorted = <<>> THEN <<x>>
    ELSE IF Head(sorted).score > x.score
         THEN <<Head(sorted)>> \o insertByScore_unstable(Tail(sorted), x)
         ELSE <<x>> \o sorted

\* One step of Array.prototype.sort((a, b) => b.score - a.score), which is
\* stable: x goes after every element whose score is >= its own.
RECURSIVE insertByScore(_, _)
insertByScore(sorted, x) ==
    IF sorted = <<>> THEN <<x>>
    ELSE IF Head(sorted).score >= x.score
         THEN <<Head(sorted)>> \o insertByScore(Tail(sorted), x)
         ELSE <<x>> \o sorted

RECURSIVE sortByScore(_)
sortByScore(xs) ==
    IF xs = <<>> THEN <<>>
    ELSE insertByScore(sortByScore(SubSeq(xs, 1, Len(xs) - 1)), xs[Len(xs)])

\* scoredOf that scores the pinned tasks with the rest.
scoredOf_keepsPinned(pool, pinnedIds, cats, avail, n) ==
    LET withScore == [i \in 1..Len(pool) |->
                        [task |-> pool[i],
                         score |-> scoreTask(pool[i], kindOf(cats, pool[i].categoryId), avail, n)]]
    IN sortByScore(SelectSeq(withScore, LAMBDA s : s.score >= 0))

\* pool.filter(not pinned).map(score).filter(score >= 0).sort(descending)
scoredOf(pool, pinnedIds, cats, avail, n) ==
    LET rest == SelectSeq(pool, LAMBDA t : t.id \notin pinnedIds)
        withScore == [i \in 1..Len(rest) |->
                        [task |-> rest[i],
                         score |-> scoreTask(rest[i], kindOf(cats, rest[i].categoryId), avail, n)]]
    IN sortByScore(SelectSeq(withScore, LAMBDA s : s.score >= 0))

kindCountOf(result, cats, kind) ==
    Cardinality({i \in 1..Len(result) : kindOf(cats, result[i].categoryId) = kind})

\* fillStep without the `result.length >= cap` guard.
fillStep_noCap(acc, t, cats, cap, minsLeft, poolSize) ==
    LET est == IF t.estimateMinutes = Undefined THEN 15 ELSE t.estimateMinutes
        kind == kindOf(cats, t.categoryId)
    IN IF acc.usedMinutes + est > minsLeft /\ acc.usedMinutes > 0 THEN acc
       ELSE IF kindCountOf(acc.result, cats, kind) >= 2 /\ poolSize > cap THEN acc
       ELSE [result |-> Append(acc.result, t), usedMinutes |-> acc.usedMinutes + est]

\* fillStep without the diversity cap.
fillStep_noDiversity(acc, t, cats, cap, minsLeft, poolSize) ==
    LET est == IF t.estimateMinutes = Undefined THEN 15 ELSE t.estimateMinutes
    IN IF Len(acc.result) >= cap THEN acc
       ELSE IF acc.usedMinutes + est > minsLeft /\ acc.usedMinutes > 0 THEN acc
       ELSE [result |-> Append(acc.result, t), usedMinutes |-> acc.usedMinutes + est]

\* fillStep that holds the first candidate to the budget too.
fillStep_firstInBudget(acc, t, cats, cap, minsLeft, poolSize) ==
    LET est == IF t.estimateMinutes = Undefined THEN 15 ELSE t.estimateMinutes
        kind == kindOf(cats, t.categoryId)
    IN IF Len(acc.result) >= cap THEN acc
       ELSE IF acc.usedMinutes + est > minsLeft THEN acc
       ELSE IF kindCountOf(acc.result, cats, kind) >= 2 /\ poolSize > cap THEN acc
       ELSE [result |-> Append(acc.result, t), usedMinutes |-> acc.usedMinutes + est]

\* fillStep without the time-budget guard.
fillStep_noBudget(acc, t, cats, cap, minsLeft, poolSize) ==
    LET est == IF t.estimateMinutes = Undefined THEN 15 ELSE t.estimateMinutes
        kind == kindOf(cats, t.categoryId)
    IN IF Len(acc.result) >= cap THEN acc
       ELSE IF kindCountOf(acc.result, cats, kind) >= 2 /\ poolSize > cap THEN acc
       ELSE [result |-> Append(acc.result, t), usedMinutes |-> acc.usedMinutes + est]

\* The body of fillFromScored's loop for one candidate: the three `continue`
\* guards, else push.  usedMinutes is carried beside the result.
fillStep(acc, t, cats, cap, minsLeft, poolSize) ==
    LET est == estimateOr15(t)
        kind == kindOf(cats, t.categoryId)
    IN IF Len(acc.result) >= cap THEN acc
       ELSE IF acc.usedMinutes + est > minsLeft /\ acc.usedMinutes > 0 THEN acc
       ELSE IF kindCountOf(acc.result, cats, kind) >= 2 /\ poolSize > cap THEN acc
       ELSE [result |-> Append(acc.result, t), usedMinutes |-> acc.usedMinutes + est]

RECURSIVE fillLoop(_, _, _, _, _, _)
fillLoop(acc, scoredList, i, cats, cap, minsLeft) ==
    IF i > Len(scoredList) THEN acc
    ELSE fillLoop(fillStep(acc, scoredList[i].task, cats, cap, minsLeft, Len(scoredList)),
                  scoredList, i + 1, cats, cap, minsLeft)

fillFromScored(scoredList, cats, cap, minsLeft) ==
    fillLoop([result |-> <<>>, usedMinutes |-> 0], scoredList, 1, cats, cap, minsLeft).result

buildStabilizerStackSplit(ts, cats, avail, maxT, n) ==
    LET pool == poolOf(ts, n)
        pinned == pinnedOf(pool, maxT)
        pinnedMins == sumEstimates(pinned)
        scored == scoredOf(pool, idsOf(pinned), cats, avail, n)
    IN [pinned |-> pinned,
        suggested |-> fillFromScored(scored, cats, maxT - Len(pinned),
                                     Max(0, avail - pinnedMins))]

buildStabilizerStack(ts, cats, avail, maxT, n) ==
    LET split == buildStabilizerStackSplit(ts, cats, avail, maxT, n)
    IN split.pinned \o split.suggested

\* ---------------------------------------------------------------- inputs

\* No function has been called yet.
NoCall == [fn |-> "none", val |-> 0]

\* db.timerState.get("active") finds no record.
NoTimer == [taskId |-> "", timeEntryId |-> 0, startedAt |-> Undefined,
            pausedAt |-> Undefined, accumulatedSeconds |-> 0]

\* A Task as makeTask() of the test suites builds it, before overrides.
makeTask ==
    [id |-> "t1", domain |-> "LIFE_ADMIN", categoryId |-> "cat-legal",
     status |-> "BACKLOG", nextActionAt |-> Undefined, blockedByTaskIds |-> {},
     estimateMinutes |-> 30, dueDate |-> Undefined, softDeadline |-> Undefined,
     moneyImpact |-> Undefined, title |-> "Test task", priority |-> 2,
     pendingReason |-> "", subtasks |-> <<>>, actualSecondsTotal |-> 0,
     createdAt |-> 0, updatedAt |-> 0, completedAt |-> Undefined]

\* The tasks scoreTask, isWaiting and isActionable are called on: every
\* combination of the fields they read.
ScoreTasks ==
    {[makeTask EXCEPT !.status = st, !.nextActionAt = na, !.blockedByTaskIds = bl,
                      !.estimateMinutes = est, !.dueDate = due,
                      !.softDeadline = soft, !.moneyImpact = money] :
        st \in TaskStatus,
        na \in {Undefined} \cup (0..MaxTime),
        bl \in {{}, {"t2"}},
        est \in {Undefined, 10, 45, 150},
        due \in {Undefined, 3, 4, 8},
        soft \in {Undefined, 8},
        money \in {Undefined, 100}}

\* The shapes of the tasks handed to buildStabilizerStackSplit (the id is
\* given by the position in the list).
StackShapes ==
    {[makeTask EXCEPT !.status = "BACKLOG", !.estimateMinutes = est] :
        est \in {Undefined, 0, 10, 50}}
    \cup {[makeTask EXCEPT !.status = "TODAY", !.estimateMinutes = est] :
        est \in {Undefined, 50}}
    \cup {[makeTask EXCEPT !.status = st, !.blockedByTaskIds = {"t0"},
                           !.estimateMinutes = 10] : st \in {"BACKLOG", "TODAY"}}
    \cup {[makeTask EXCEPT !.status = st, !.estimateMinutes = 10] :
        st \in {"IN_PROGRESS", "DONE", "ARCHIVED"}}
    \cup {[makeTask EXCEPT !.status = "PENDING", !.nextActionAt = na,
                           !.estimateMinutes = 10] : na \in {0, MaxTime}}
    \cup {[makeTask EXCEPT !.domain = "BUSINESS", !.status = "TODAY",
                           !.estimateMinutes = 10]}
    \cup {[makeTask EXCEPT !.categoryId = "cat-money", !.estimateMinutes = 10]}

idAt(i) == CASE i = 1 -> "t1" [] i = 2 -> "t2" [] i = 3 -> "t3"
               [] i = 4 -> "t4" [] OTHER -> "t5"

\* A task list with the unique ids of the store, from a list of shapes.
withIds(shapes) == [i \in 1..Len(shapes) |-> [shapes[i] EXCEPT !.id = idAt(i)]]

\* The tables that start empty, and no call in flight.
emptyTables ==
    /\ timeEntries = <<>>
    /\ ran = [session |-> 0, total |-> [id \in DOMAIN db |-> 0]]
    /\ dailyCapacity = {}
    /\ habitLogs = {}
    /\ calls = {}

\* ---------------------------------------------------------------- pure calls

InitScore ==
    /\ now \in 0..MaxTime
    /\ task \in ScoreTasks
    /\ categoryKind \in CategoryKind \cup {""}
    /\ availableMinutesRemaining \in {0, 30, 120}
    /\ ret = NoCall
    /\ timerState = NoTimer
    /\ db = <<>>
    /\ trip = <<>>
    /\ tasks = <<>>
    /\ availableMinutes = 0
    /\ maxTasks = 0
    /\ emptyTables

CallScoreTask ==
    /\ ret = NoCall
    /\ ret' = [fn |-> "scoreTask",
               val |-> scoreTask(task, categoryKind, availableMinutesRemaining, now)]
    /\ UNCHANGED <<db, trip, now, task, categoryKind, availableMinutesRemaining,
                   tasks, availableMinutes, maxTasks, timerState,
                   timeEntries, ran, dailyCapacity, habitLogs, calls>>

CallIsWaiting ==
    /\ ret = NoCall
    /\ ret' = [fn |-> "isWaiting", val |-> isWaiting(task, now)]
    /\ UNCHANGED <<db, trip, now, task, categoryKind, availableMinutesRemaining,
                   tasks, availableMinutes, maxTasks, timerState,
                   timeEntries, ran, dailyCapacity, habitLogs, calls>>

CallIsActionable ==
    /\ ret = NoCall
    /\ ret' = [fn |-> "isActionable", val |-> isActionable(task, now)]
    /\ UNCHANGED <<db, trip, now, task, categoryKind, availableMinutesRemaining,
                   tasks, availableMinutes, maxTasks, timerState,
                   timeEntries, ran, dailyCapacity, habitLogs, calls>>

\* scoreTask on the same task under each of three category kinds.
CallScoreTaskByKind ==
    /\ ret = NoCall
    /\ ret' = [fn |-> "scoreTaskByKind",
               val |-> [kind \in {"LEGAL", "MONEY", "MAINTENANCE"} |->
                           scoreTask(task, kind, availableMinutesRemaining, now)]]
    /\ UNCHANGED <<db, trip, now, task, categoryKind, availableMinutesRemaining,
                   tasks, availableMinutes, maxTasks, timerState,
                   timeEntries, ran, dailyCapacity, habitLogs, calls>>

\* scoreTask on the same task due in 2 days, due in 10 days and without a
\* dueDate.
CallScoreTaskByDue ==
    /\ ret = NoCall
    /\ ret' = [fn |-> "scoreTaskByDue",
               val |-> [soon |-> scoreTask([task EXCEPT !.dueDate = now + 2],
                                           categoryKind, availableMinutesRemaining, now),
                        later |-> scoreTask([task EXCEPT !.dueDate = now + 10],
                                            categoryKind, availableMinutesRemaining, now),
                        none |-> scoreTask([task EXCEPT !.dueDate = Undefined],
                                           categoryKind, availableMinutesRemaining, now)]]
    /\ UNCHANGED <<db, trip, now, task, categoryKind, availableMinutesRemaining,
                   tasks, availableMinutes, maxTasks, timerState,
                   timeEntries, ran, dailyCapacity, habitLogs, calls>>

\* scoreTask on a TODAY task, and on a task of another status and of any
\* category kind.
CallScoreTaskPair ==
    /\ ret = NoCall
    /\ task.status = "TODAY"
    /\ \E st \in TaskStatus \ {"TODAY"}, kind \in CategoryKind \cup {""} :
          ret' = [fn |-> "scoreTaskPair",
                  val |-> [a |-> scoreTask(task, categoryKind,
                                           availableMinutesRemaining, now),
                           b |-> scoreTask([task EXCEPT !.status = st], kind,
                                           availableMinutesRemaining, now)]]
    /\ UNCHANGED <<db, trip, now, task, categoryKind, availableMinutesRemaining,
                   tasks, availableMinutes, maxTasks, timerState,
                   timeEntries, ran, dailyCapacity, habitLogs, calls>>

NextScore ==
    \/ CallScoreTask
    \/ CallIsWaiting
    \/ CallIsActionable
    \/ CallScoreTaskByKind
    \/ CallScoreTaskByDue
    \/ CallScoreTaskPair

SpecScore == InitScore /\ [][NextScore]_vars

InitStack ==
    /\ now = 0
    /\ \E len \in 0..MaxLen : \E shapes \in [1..len -> StackShapes] :
          tasks = withIds(shapes)
    /\ availableMinutes \in {0, 10, 60}
    /\ maxTasks \in 0..MaxStack
    /\ ret = NoCall
    /\ timerState = NoTimer
    /\ db = <<>>
    /\ trip = <<>>
    /\ task = makeTask
    /\ categoryKind = ""
    /\ availableMinutesRemaining = 0
    /\ emptyTables

CallBuildStabilizerStackSplit ==
    /\ ret = NoCall
    /\ ret' = [fn |-> "buildStabilizerStackSplit",
               val |-> buildStabilizerStackSplit(tasks, categories, availableMinutes,
                                                 maxTasks, now)]
    /\ UNCHANGED <<db, trip, now, task, categoryKind, availableMinutesRemaining,
                   tasks, availableMinutes, maxTasks, timerState,
                   timeEntries, ran, dailyCapacity, habitLogs, calls>>

CallBuildStabilizerStack ==
    /\ ret = NoCall
    /\ ret' = [fn |-> "buildStabilizerStack",
               val |-> buildStabilizerStack(tasks, categories, availableMinutes,
                                            maxTasks, now)]
    /\ UNCHANGED <<db, trip, now, task, categoryKind, availableMinutesRemaining,
                   tasks, availableMinutes, maxTasks, timerState,
                   timeEntries, ran, dailyCapacity, habitLogs, calls>>

NextStack == CallBuildStabilizerStackSplit \/ CallBuildStabilizerStack

SpecStack == InitStack /\ [][NextStack]_vars

\* The shapes of the candidates of the selection loop: three 10-minute tasks
\* of three kinds, the LEGAL one due in 2 days; a 90-minute LEGAL task; two
\* 10-minute tasks whose categories are not in the table; a pinned task.
PoolShapes ==
    {[makeTask EXCEPT !.estimateMinutes = 10, !.dueDate = 2],
     [makeTask EXCEPT !.estimateMinutes = 10, !.categoryId = "cat-money"],
     [makeTask EXCEPT !.estimateMinutes = 10, !.categoryId = "cat-maint"],
     [makeTask EXCEPT !.estimateMinutes = 90],
     [makeTask EXCEPT !.estimateMinutes = 10, !.categoryId = "cat-gone"],
     [makeTask EXCEPT !.estimateMinutes = 10, !.categoryId = "cat-lost"],
     [makeTask EXCEPT !.estimateMinutes = 10, !.status = "TODAY"]}

InitSuggest ==
    /\ now = 0
    /\ \E len \in 0..MaxPool : \E shapes \in [1..len -> PoolShapes] :
          tasks = withIds(shapes)
    /\ availableMinutes \in {0, 15, 30}
    /\ maxTasks \in 0..MaxSlots
    /\ ret = NoCall
    /\ timerState = NoTimer
    /\ db = <<>>
    /\ trip = <<>>
    /\ task = makeTask
    /\ categoryKind = ""
    /\ availableMinutesRemaining = 0
    /\ emptyTables

SpecSuggest == InitSuggest /\ [][NextStack]_vars

\* ---------------------------------------------------------------- task store

StoreIds == {"t1", "t2"}

\* The Today stack holds at most this many pinned tasks (the pin button is
\* disabled beyond it).
StackSlots == 5

\* The store as seeded: a BACKLOG task with two subtasks, and a PENDING task
\* that waits for its nextActionAt, has a reason and is blocked by the first.
seedTasks ==
    [id \in StoreIds |->
        IF id = "t1"
        THEN [makeTask EXCEPT !.id = "t1", !.title = "Renew passport",
                              !.subtasks = <<[id |-> "s1", done |-> FALSE],
                                             [id |-> "s2", done |-> FALSE]>>]
        ELSE [makeTask EXCEPT !.id = "t2", !.title = "Request records",
                              !.categoryId = "cat-money", !.status = "PENDING",
                              !.nextActionAt = 1,
                              !.pendingReason = "Earliest request date",
                              !.blockedByTaskIds = {"t1"},
                              !.estimateMinutes = 10]]

\* Round-trip monitor of one task: the stage reached since markTaskDone was
\* last called on it as a BACKLOG task with no completedAt, and the
\* completedAt read back after that call (kept while the task stays
\* completed).  Stage "stamped" is a task just archived that had no
\* completedAt, with the archive time.  Any other operation on the task
\* ends the trip.
NoTrip == [stage |-> "none", completedAt |-> Undefined]

\* Dexie's Table.update(key, changes): the named fields of the record under
\* `key` are replaced, all others kept; an unknown key changes nothing.
updateTask(store, taskId, changes) ==
    IF taskId \in DOMAIN store
    THEN [store EXCEPT ![taskId] =
            [f \in DOMAIN store[taskId] |->
                IF f \in DOMAIN changes THEN changes[f] ELSE store[taskId][f]]]
    ELSE store

\* doneChanges that also ends the wait: nextActionAt and pendingReason cleared.
doneChanges_clearsWait(n) ==
    [status |-> "DONE", completedAt |-> n, updatedAt |-> n,
     nextActionAt |-> Undefined, pendingReason |-> ""]

doneChanges(n) == [status |-> "DONE", completedAt |-> n, updatedAt |-> n]

\* archivedChanges stamping the archive time over an existing completedAt.
archivedChanges_restamp(t, n) ==
    [status |-> "ARCHIVED", completedAt |-> n, updatedAt |-> n]

\* archivedChanges without the `?? now` default.
archivedChanges_noDefault(t, n) ==
    [status |-> "ARCHIVED", completedAt |-> t.completedAt, updatedAt |-> n]

\* completedAt: task?.completedAt ?? now
archivedChanges(t, n) ==
    [status |-> "ARCHIVED",
     completedAt |-> IF t.completedAt # Undefined THEN t.completedAt ELSE n,
     updatedAt |-> n]

\* undoneChanges that leaves completedAt in place.
undoneChanges_keepsCompletedAt(n) == [status |-> "BACKLOG", updatedAt |-> n]

undoneChanges(n) == [status |-> "BACKLOG", completedAt |-> Undefined, updatedAt |-> n]

\* A handler that returns nothing: the arguments of the pure functions stay,
\* and there is no returned value to read.
pureUnchanged ==
    /\ UNCHANGED <<task, categoryKind, availableMinutesRemaining,
                   tasks, availableMinutes, maxTasks,
                   dailyCapacity, habitLogs, calls>>
    /\ ret' = NoCall

resetTrip(taskId) == trip' = [trip EXCEPT ![taskId] = NoTrip]

markTaskDone(taskId) ==
    /\ db' = updateTask(db, taskId, doneChanges(now))
    /\ trip' = [trip EXCEPT ![taskId] =
                  IF db[taskId].status = "BACKLOG"
                     /\ db[taskId].completedAt = Undefined
                  THEN [stage |-> "done", completedAt |-> db'[taskId].completedAt]
                  ELSE NoTrip]
    /\ UNCHANGED <<now, timerState, timeEntries, ran>>
    /\ pureUnchanged

markTaskArchived(taskId) ==
    /\ db' = updateTask(db, taskId, archivedChanges(db[taskId], now))
    /\ trip' = [trip EXCEPT ![taskId] =
                  IF trip[taskId].stage = "done"
                  THEN [trip[taskId] EXCEPT !.stage = "archived"]
                  ELSE IF db[taskId].completedAt = Undefined
                  THEN [stage |-> "stamped", completedAt |-> now]
                  ELSE NoTrip]
    /\ UNCHANGED <<now, timerState, timeEntries, ran>>
    /\ pureUnchanged

unmarkTaskDone(taskId) ==
    /\ db' = updateTask(db, taskId, undoneChanges(now))
    /\ trip' = [trip EXCEPT ![taskId] =
                  IF trip[taskId].stage = "done"
                  THEN [stage |-> "undone", completedAt |-> Undefined]
                  ELSE IF trip[taskId].stage = "archived"
                  THEN [stage |-> "unarchived", completedAt |-> Undefined]
                  ELSE NoTrip]
    /\ UNCHANGED <<now, timerState, timeEntries, ran>>
    /\ pureUnchanged

pinnedCount == Cardinality({id \in StoreIds :
                  db[id].domain = "LIFE_ADMIN" /\ db[id].status = "TODAY"})

\* The pin button of an actionable, unpinned task, disabled when the stack
\* is full.
pinTask(taskId) ==
    /\ isActionable(db[taskId], now)
    /\ db[taskId].status # "TODAY"
    /\ pinnedCount < StackSlots
    /\ db' = updateTask(db, taskId, [status |-> "TODAY", updatedAt |-> now])
    /\ resetTrip(taskId)
    /\ UNCHANGED <<now, timerState, timeEntries, ran>>
    /\ pureUnchanged

unpinTask(taskId) ==
    /\ db[taskId].status = "TODAY"
    /\ db' = updateTask(db, taskId, [status |-> "BACKLOG", updatedAt |-> now])
    /\ resetTrip(taskId)
    /\ UNCHANGED <<now, timerState, timeEntries, ran>>
    /\ pureUnchanged

\* The status select of the task page: update({ status }).
selectStatus(taskId, st) ==
    /\ st # db[taskId].status
    /\ db' = updateTask(db, taskId, [status |-> st, updatedAt |-> now])
    /\ resetTrip(taskId)
    /\ UNCHANGED <<now, timerState, timeEntries, ran>>
    /\ pureUnchanged

\* The date input of a PENDING task: update({ nextActionAt: value || undefined }).
setNextActionAt(taskId, d) ==
    /\ db[taskId].status = "PENDING"
    /\ d # db[taskId].nextActionAt
    /\ db' = updateTask(db, taskId, [nextActionAt |-> d, updatedAt |-> now])
    /\ resetTrip(taskId)
    /\ UNCHANGED <<now, timerState, timeEntries, ran>>
    /\ pureUnchanged

\* "Make Actionable Now" of a PENDING task.
makeActionableNow(taskId) ==
    /\ db[taskId].status = "PENDING"
    /\ db' = updateTask(db, taskId, [status |-> "BACKLOG", nextActionAt |-> Undefined,
                                     pendingReason |-> "", updatedAt |-> now])
    /\ resetTrip(taskId)
    /\ UNCHANGED <<now, timerState, timeEntries, ran>>
    /\ pureUnchanged

\* isDue that passes over a nextActionAt equal to now.
isDue_strict(t, n) ==
    /\ t.status = "PENDING"
    /\ t.nextActionAt # Undefined
    /\ t.nextActionAt < n

\* The sweep's test of one PENDING task: nextActionAt present and not after now.
isDue(t, n) ==
    /\ t.status = "PENDING"
    /\ t.nextActionAt # Undefined
    /\ t.nextActionAt <= n

\* transitionDuePendingTasks, run to its end with no other write in
\* between: every due PENDING task becomes BACKLOG; the count is returned.
transitionDuePendingTasks ==
    LET due == {id \in StoreIds : isDue(db[id], now)}
    IN /\ db' = [id \in StoreIds |->
                    IF id \in due
                    THEN updateTask(db, id, [status |-> "BACKLOG", updatedAt |-> now])[id]
                    ELSE db[id]]
       /\ ret' = [fn |-> "transitionDuePendingTasks", val |-> Cardinality(due)]
       /\ UNCHANGED <<trip, now, timerState, task, categoryKind, availableMinutesRemaining,
                      tasks, availableMinutes, maxTasks,
                      timeEntries, ran, dailyCapacity, habitLogs, calls>>

\* One day in seconds: Math.floor((Date.now() - started) / 1000) of a
\* difference counted in days.
SecondsPerDay == 86400

\* A day passes; a running timer runs on.
Tick ==
    /\ now < MaxTime
    /\ now' = now + 1
    /\ ran' = IF timerState # NoTimer /\ timerState.pausedAt = Undefined
              THEN [ran EXCEPT !.session = @ + SecondsPerDay]
              ELSE ran
    /\ UNCHANGED <<db, trip, timerState, timeEntries>>
    /\ pureUnchanged

Init ==
    /\ db = seedTasks
    /\ trip = [id \in StoreIds |-> NoTrip]
    /\ now = 0
    /\ task = makeTask
    /\ categoryKind = ""
    /\ availableMinutesRemaining = 0
    /\ tasks = <<>>
    /\ availableMinutes = 0
    /\ maxTasks = 0
    /\ ret = NoCall
    /\ timerState = NoTimer
    /\ emptyTables

Next ==
    \/ \E id \in StoreIds : markTaskDone(id)
    \/ \E id \in StoreIds : markTaskArchived(id)
    \/ \E id \in StoreIds : unmarkTaskDone(id)
    \/ \E id \in StoreIds : pinTask(id)
    \/ \E id \in StoreIds : unpinTask(id)
    \/ \E id \in StoreIds, st \in TaskStatus : selectStatus(id, st)
    \/ \E id \in StoreIds, d \in {Undefined} \cup (0..MaxTime) : setNextActionAt(id, d)
    \/ \E id \in StoreIds : makeActionableNow(id)
    \/ transitionDuePendingTasks
    \/ Tick

Spec == Init /\ [][Next]_vars

\* ---------------------------------------------------------------- app handlers

\* stopTimer: a session counts for at most 8 hours.
maxSeconds == 8 * 3600

secondsSince(startedAt, n) == (n - startedAt) * SecondsPerDay

\* stopTimer's totalSeconds for the timer record `state`: the accumulated
\* seconds, the running time added unless paused, capped.
sessionSeconds(state, n) ==
    LET running == IF state.pausedAt = Undefined
                   THEN secondsSince(state.startedAt, n) ELSE 0
    IN Min(state.accumulatedSeconds + running, maxSeconds)

\* What stopTimer writes to db.tasks: the session's seconds go to the
\* task's actualSecondsTotal.
stoppedTasks(store, state, n) ==
    IF state.taskId \in DOMAIN store
    THEN updateTask(store, state.taskId,
             [actualSecondsTotal |->
                  store[state.taskId].actualSecondsTotal + sessionSeconds(state, n),
              updatedAt |-> n])
    ELSE store

\* What stopTimer writes to db.timeEntries: the session's entry is closed.
stoppedEntries(entries, state, n) ==
    [i \in 1..Len(entries) |->
        IF i = state.timeEntryId
        THEN [entries[i] EXCEPT !.endAt = n, !.seconds = sessionSeconds(state, n)]
        ELSE entries[i]]

\* The session of the timer record is over: what it ran, at most 8 hours of
\* it, is added to what the task's timer has run.
sessionOver(r, taskId) ==
    [session |-> 0,
     total |-> [r.total EXCEPT ![taskId] = @ + Min(r.session, maxSeconds)]]

\* stopTimer with a timer record present (without one it returns at once).
stopTimer ==
    /\ timerState # NoTimer
    /\ timeEntries' = stoppedEntries(timeEntries, timerState, now)
    /\ db' = stoppedTasks(db, timerState, now)
    /\ timerState' = NoTimer
    /\ ran' = sessionOver(ran, timerState.taskId)
    /\ UNCHANGED <<trip, now>>
    /\ pureUnchanged

\* pauseTimer of a running timer, called without a pauseReason as every
\* button calls it (it returns at once when there is no timer or the timer
\* is paused).
pauseTimer ==
    /\ timerState # NoTimer
    /\ timerState.pausedAt = Undefined
    /\ timerState' = [timerState EXCEPT
                         !.pausedAt = now,
                         !.accumulatedSeconds =
                             timerState.accumulatedSeconds
                             + secondsSince(timerState.startedAt, now)]
    /\ UNCHANGED <<db, trip, now, timeEntries, ran>>
    /\ pureUnchanged

\* startTimer.  A timer of another task is stopped first; a paused timer of
\* this task is resumed and nothing else is written; otherwise a time entry
\* is added, the task becomes IN_PROGRESS and a fresh timer record replaces
\* the one there is.  The task page shows the timer for every status but
\* PENDING, the Today page for every task of the stack.
startTimer(taskId) ==
    LET other == timerState.taskId # "" /\ timerState.taskId # taskId
        stopped == IF other THEN stoppedTasks(db, timerState, now) ELSE db
        closed == IF other THEN stoppedEntries(timeEntries, timerState, now)
                  ELSE timeEntries
        existing == IF other THEN NoTimer ELSE timerState
    IN /\ db[taskId].status # "PENDING" \/ isActionable(db[taskId], now)
       /\ IF existing # NoTimer /\ existing.taskId = taskId
             /\ existing.pausedAt # Undefined
          THEN /\ timerState' = [existing EXCEPT !.startedAt = now,
                                                 !.pausedAt = Undefined]
               /\ UNCHANGED <<db, timeEntries, ran>>
          ELSE /\ Len(timeEntries) < MaxEntries
               /\ timeEntries' = Append(closed,
                     [taskId |-> taskId, startAt |-> now, endAt |-> Undefined,
                      seconds |-> 0])
               /\ db' = updateTask(stopped, taskId,
                            [status |-> "IN_PROGRESS", updatedAt |-> now])
               /\ timerState' = [taskId |-> taskId,
                                 timeEntryId |-> Len(timeEntries) + 1,
                                 startedAt |-> now,
                                 pausedAt |-> Undefined, accumulatedSeconds |-> 0]
               /\ ran' = IF timerState # NoTimer
                         THEN sessionOver(ran, timerState.taskId) ELSE ran
       /\ UNCHANGED <<trip, now>>
       /\ pureUnchanged

\* The handlers below write through markTaskDone, markTaskArchived and
\* unmarkTaskDone; the round-trip monitor is not fed by them.
appUnchanged == UNCHANGED <<trip, now, timerState, timeEntries, ran>>

\* The round check button of a task: unmarkTaskDone when DONE, else
\* markTaskDone.
toggleDone(taskId) ==
    /\ db' = updateTask(db, taskId,
                 IF db[taskId].status = "DONE"
                 THEN undoneChanges(now) ELSE doneChanges(now))
    /\ appUnchanged
    /\ pureUnchanged

\* "Undo completion" in the Completed and Archived lists: unmarkTaskDone.
undoCompletion(taskId) ==
    /\ db[taskId].status \in {"DONE", "ARCHIVED"}
    /\ db' = updateTask(db, taskId, undoneChanges(now))
    /\ appUnchanged
    /\ pureUnchanged

\* "Archive" in the Completed list: markTaskArchived.
archiveTask(taskId) ==
    /\ db[taskId].status = "DONE"
    /\ db' = updateTask(db, taskId, archivedChanges(db[taskId], now))
    /\ appUnchanged
    /\ pureUnchanged

\* "Unarchive" in the Archived list: update(id, { status: "DONE", updatedAt }).
unarchiveTask(taskId) ==
    /\ db[taskId].status = "ARCHIVED"
    /\ db' = updateTask(db, taskId, [status |-> "DONE", updatedAt |-> now])
    /\ appUnchanged
    /\ pureUnchanged

\* task.subtasks.map((s) => s.id === subId ? { ...s, done: !s.done } : s)
toggled(subtasks, subId) ==
    [i \in 1..Len(subtasks) |->
        IF subtasks[i].id = subId
        THEN [subtasks[i] EXCEPT !.done = ~subtasks[i].done]
        ELSE subtasks[i]]

everyDone(subtasks) == \A i \in 1..Len(subtasks) : subtasks[i].done

\* toggleSubtask of the task page, on one of the task's subtasks: the list is
\* saved, then markTaskDone is called when the list is non-empty, all done,
\* and the task was not DONE.
toggleSubtask(taskId, subId) ==
    LET updated == toggled(db[taskId].subtasks, subId)
        saved == updateTask(db, taskId, [subtasks |-> updated, updatedAt |-> now])
    IN /\ \E i \in 1..Len(db[taskId].subtasks) : db[taskId].subtasks[i].id = subId
       /\ db' = IF Len(updated) > 0 /\ everyDone(updated) /\ db[taskId].status # "DONE"
                THEN updateTask(saved, taskId, doneChanges(now))
                ELSE saved
       /\ appUnchanged
       /\ pureUnchanged

\* The app: the store as seeded, and the handlers that move a task through
\* its lifecycle.
NextApp ==
    \/ \E id \in StoreIds : pinTask(id)
    \/ \E id \in StoreIds : unpinTask(id)
    \/ \E id \in StoreIds : startTimer(id)
    \/ pauseTimer
    \/ stopTimer
    \/ \E id \in StoreIds : toggleDone(id)
    \/ \E id \in StoreIds : undoCompletion(id)
    \/ \E id \in StoreIds : archiveTask(id)
    \/ \E id \in StoreIds : unarchiveTask(id)
    \/ \E id \in StoreIds, subId \in {"s1", "s2"} : toggleSubtask(id, subId)
    \/ transitionDuePendingTasks
    \/ Tick

SpecApp == Init /\ [][NextApp]_vars

\* The task page of a stored task: its status select, check button and
\* subtask checkboxes.
NextTaskPage ==
    \/ \E id \in StoreIds, st \in TaskStatus : selectStatus(id, st)
    \/ \E id \in StoreIds : toggleDone(id)
    \/ \E id \in StoreIds, subId \in {"s1", "s2"} : toggleSubtask(id, subId)
    \/ Tick

SpecTaskPage == Init /\ [][NextTaskPage]_vars

\* ---------------------------------------------------------------- daily capacity

\* Async calls that may be in flight together.
MaxCalls == 2

\* db.appSettings.get("default") finds no record; no dailyOverride is passed.
NoSettings == [availableMinutes |-> Undefined, builderAvailableMinutes |-> Undefined]

NoOverride == [id |-> 0, date |-> Undefined, domain |-> "", minutes |-> 0]

\* The settings passed to getEffectiveMinutes: none, the seeded defaults, a
\* zero Life default with no Builder default, and the reverse.
SettingsShapes ==
    {NoSettings,
     [availableMinutes |-> 120, builderAvailableMinutes |-> 90],
     [availableMinutes |-> 0, builderAvailableMinutes |-> Undefined],
     [availableMinutes |-> Undefined, builderAvailableMinutes |-> 60]}

\* todayDateStr(): the date of now.
todayDateStr(n) == n

\* a ?? 120
orDefault(a) == IF a = Undefined THEN 120 ELSE a

\* getEffectiveMinutes that takes an override of 0 minutes for no override.
getEffectiveMinutes_truthyMinutes(settings, dailyOverride, domain, n) ==
    IF dailyOverride # NoOverride /\ dailyOverride.date = todayDateStr(n)
       /\ dailyOverride.minutes # 0
    THEN dailyOverride.minutes
    ELSE IF domain = "BUSINESS"
         THEN orDefault(settings.builderAvailableMinutes)
         ELSE orDefault(settings.availableMinutes)

getEffectiveMinutes(settings, dailyOverride, domain, n) ==
    IF dailyOverride # NoOverride /\ dailyOverride.date = todayDateStr(n)
    THEN dailyOverride.minutes
    ELSE IF domain = "BUSINESS"
         THEN orDefault(settings.builderAvailableMinutes)
         ELSE orDefault(settings.availableMinutes)

\* The records of a date and domain: where("[date+domain]").equals([date, domain]).
capacityOf(table, date, domain) ==
    {r \in table : r.date = date /\ r.domain = domain}

\* generateId(): an id no stored record has and no call in flight holds.
freshCapacityId ==
    LET used == {r.id : r \in dailyCapacity} \cup {c.existing : c \in calls}
    IN CHOOSE i \in 1..(Cardinality(used) + 1) : i \notin used

freePid == CHOOSE p \in 1..MaxCalls : p \notin {c.pid : c \in calls}

capacityUnchanged ==
    /\ UNCHANGED <<db, trip, now, timerState, timeEntries, ran, habitLogs,
                   task, categoryKind, availableMinutesRemaining,
                   tasks, availableMinutes, maxTasks>>
    /\ ret' = NoCall

\* What .first() of today's records of the domain can give: 0 for none, any
\* of them when there are several (the ids are random).
firstCapacityIds(domain) ==
    IF capacityOf(dailyCapacity, todayDateStr(now), domain) = {}
    THEN {0}
    ELSE {r.id : r \in capacityOf(dailyCapacity, todayDateStr(now), domain)}

\* setDailyCapacity up to its first await: date and existing are read.
setDailyCapacity(domain, minutes) ==
    /\ Cardinality(calls) < MaxCalls
    /\ \E existing \in firstCapacityIds(domain) :
          calls' = calls \cup {[pid |-> freePid, fn |-> "setDailyCapacity",
                                domain |-> domain, minutes |-> minutes,
                                date |-> todayDateStr(now), existing |-> existing]}
    /\ UNCHANGED dailyCapacity
    /\ capacityUnchanged

\* clearDailyCapacity up to its first await: date and existing are read.
clearDailyCapacity(domain) ==
    /\ Cardinality(calls) < MaxCalls
    /\ \E existing \in firstCapacityIds(domain) :
          calls' = calls \cup {[pid |-> freePid, fn |-> "clearDailyCapacity",
                                domain |-> domain, minutes |-> 0,
                                date |-> todayDateStr(now), existing |-> existing]}
    /\ UNCHANGED dailyCapacity
    /\ capacityUnchanged

\* setDailyCapacity after the read: update(existing.id, { minutes }), which
\* writes nothing when the record is gone, or add of a new record.
setDailyCapacityWrite(pid) ==
    \E c \in calls :
        /\ c.pid = pid
        /\ c.fn = "setDailyCapacity"
        /\ dailyCapacity' =
              IF c.existing # 0
              THEN {IF r.id = c.existing THEN [r EXCEPT !.minutes = c.minutes] ELSE r :
                        r \in dailyCapacity}
              ELSE dailyCapacity \cup {[id |-> freshCapacityId, date |-> c.date,
                                        domain |-> c.domain, minutes |-> c.minutes]}
        /\ calls' = calls \ {c}
        /\ capacityUnchanged

\* clearDailyCapacity after the read: delete(existing.id) when a record was found.
clearDailyCapacityWrite(pid) ==
    \E c \in calls :
        /\ c.pid = pid
        /\ c.fn = "clearDailyCapacity"
        /\ dailyCapacity' = IF c.existing # 0
                            THEN {r \in dailyCapacity : r.id # c.existing}
                            ELSE dailyCapacity
        /\ calls' = calls \ {c}
        /\ capacityUnchanged

NextCapacity ==
    \/ \E domain \in TaskDomain, minutes \in {0, 45} : setDailyCapacity(domain, minutes)
    \/ \E domain \in TaskDomain : clearDailyCapacity(domain)
    \/ \E pid \in 1..MaxCalls : setDailyCapacityWrite(pid)
    \/ \E pid \in 1..MaxCalls : clearDailyCapacityWrite(pid)

SpecCapacity == Init /\ [][NextCapacity]_vars

\* The DailyCapacity records passed to getEffectiveMinutes: of today or of
\* another day, of either domain, of 0 or 45 minutes.
OverrideShapes ==
    {[id |-> 1, date |-> d, domain |-> dom, minutes |-> m] :
        d \in 0..MaxTime, dom \in TaskDomain, m \in {0, 45}}

\* getEffectiveMinutes, called with a record or none.
CallGetEffectiveMinutes ==
    /\ ret = NoCall
    /\ \E settings \in SettingsShapes, dailyOverride \in OverrideShapes \cup {NoOverride},
          domain \in TaskDomain :
            ret' = [fn |-> "getEffectiveMinutes",
                    settings |-> settings, dailyOverride |-> dailyOverride,
                    domain |-> domain,
                    val |-> getEffectiveMinutes(settings, dailyOverride, domain, now)]
    /\ UNCHANGED <<db, trip, now, timerState, timeEntries, ran, habitLogs,
                   task, categoryKind, availableMinutesRemaining,
                   tasks, availableMinutes, maxTasks, dailyCapacity, calls>>

NextMinutes == CallGetEffectiveMinutes \/ Tick

SpecMinutes == Init /\ [][NextMinutes]_vars

\* ---------------------------------------------------------------- the sweep, step by step

\* The stored ids in primary-key order.
storeOrder == <<"t1", "t2">>

\* db.tasks.where("status").equals("PENDING").toArray(): the PENDING tasks as
\* they are at the read.
pendingOf(store) ==
    LET ids == SelectSeq(storeOrder, LAMBDA id : store[id].status = "PENDING")
    IN [i \in 1..Len(ids) |-> store[ids[i]]]

\* The loop's test of a task of the list it read.
dueInList(t, n) == t.nextActionAt # Undefined /\ t.nextActionAt <= n

\* The list from its first task that passes the loop's test (the tasks before
\* it are passed over without an await).
RECURSIVE fromFirstDue(_, _)
fromFirstDue(pending, n) ==
    IF pending = <<>> THEN <<>>
    ELSE IF dueInList(Head(pending), n) THEN pending
    ELSE fromFirstDue(Tail(pending), n)

sweepUnchanged ==
    UNCHANGED <<trip, now, timerState, timeEntries, ran, dailyCapacity, habitLogs,
                task, categoryKind, availableMinutesRemaining,
                tasks, availableMinutes, maxTasks>>

\* transitionDuePendingTasks up to its first await: now and the PENDING list
\* are read.
transitionDuePendingTasksRead ==
    /\ Cardinality(calls) < MaxCalls
    /\ calls' = calls \cup {[pid |-> freePid, fn |-> "transitionDuePendingTasks",
                             now |-> now, pending |-> pendingOf(db), count |-> 0]}
    /\ ret' = NoCall
    /\ UNCHANGED db
    /\ sweepUnchanged

\* One turn of the loop that writes: the next task of the list that is due
\* by its nextActionAt as read is updated to BACKLOG, whatever db.tasks holds
\* for it by now.
transitionDuePendingTasksWrite(pid) ==
    \E c \in calls :
        LET rest == fromFirstDue(c.pending, now)
        IN /\ c.pid = pid
           /\ c.fn = "transitionDuePendingTasks"
           /\ rest # <<>>
           /\ db' = updateTask(db, Head(rest).id,
                               [status |-> "BACKLOG", updatedAt |-> c.now])
           /\ calls' = (calls \ {c})
                          \cup {[c EXCEPT !.pending = Tail(rest), !.count = c.count + 1]}
           /\ ret' = NoCall
           /\ sweepUnchanged

\* The loop is over: the count is returned.
transitionDuePendingTasksReturn(pid) ==
    \E c \in calls :
        /\ c.pid = pid
        /\ c.fn = "transitionDuePendingTasks"
        /\ fromFirstDue(c.pending, now) = <<>>
        /\ calls' = calls \ {c}
        /\ ret' = [fn |-> "transitionDuePendingTasks", val |-> c.count]
        /\ UNCHANGED db
        /\ sweepUnchanged

\* The sweep of one tab next to the handlers of another that write to a
\* PENDING task.
NextSweep ==
    \/ transitionDuePendingTasksRead
    \/ \E pid \in 1..MaxCalls : transitionDuePendingTasksWrite(pid)
    \/ \E pid \in 1..MaxCalls : transitionDuePendingTasksReturn(pid)
    \/ \E id \in StoreIds : markTaskDone(id)
    \/ \E id \in StoreIds : pinTask(id)
    \/ \E id \in StoreIds, d \in {Undefined} \cup (0..(MaxTime + 1)) : setNextActionAt(id, d)
    \/ \E id \in StoreIds : unmarkTaskDone(id)
    \/ Tick

SpecSweep == Init /\ [][NextSweep]_vars

\* ---------------------------------------------------------------- habits

\* Calendar dates are day numbers; day 0 is a Sunday. The dates handed to
\* the habit engine run over 0..MaxDay.
MaxDay == 3
\* Habit logs the store may hold.
MaxLogs == 2

HabitIds == {"h1", "h2"}

HabitLogStatus == {"DONE", "PARTIAL", "SKIP", "NONE"}

\* Map.get(date) finds no log.
NoLog == [id |-> 0, habitId |-> "", date |-> Undefined, status |-> "NONE", value |-> Undefined]

\* date's weekday, 0 = Sunday.
weekdayOf(date) == date % 7

\* The Monday that starts the week of date.
mondayOf(date) == date - ((weekdayOf(date) + 6) % 7)

isHabitScheduledOnDate(habit, date) ==
    IF date < habit.startDate THEN FALSE
    ELSE CASE habit.scheduleType = "DAILY" -> TRUE
           [] habit.scheduleType = "WEEKDAYS" -> weekdayOf(date) \in habit.weekdays
           [] habit.scheduleType = "EVERY_N_DAYS" ->
                (date - habit.startDate) % Max(1, habit.everyNDays) = 0
           [] habit.scheduleType = "TIMES_PER_WEEK" -> TRUE

logAt(logsByDate, date) ==
    IF date \in DOMAIN logsByDate THEN logsByDate[date] ELSE NoLog

\* The boolean done-equivalence: DONE, or PARTIAL if allowed, or the goal attained.
isDoneEquivalent(habit, log) ==
    IF log = NoLog THEN FALSE
    ELSE \/ log.status = "DONE"
         \/ log.status = "PARTIAL" /\ habit.allowPartial
         \/ /\ habit.type # "CHECK"
            /\ habit.goalTarget > 0
            /\ log.value # Undefined
            /\ log.value >= habit.goalTarget

\* The fractional done-equivalence as a fraction <<p, q>> = p / q.
fractionalDoneEquivalence(habit, log) ==
    IF log = NoLog THEN <<0, 1>>
    ELSE IF log.status = "DONE" THEN <<1, 1>>
    ELSE IF log.status = "PARTIAL" /\ habit.allowPartial THEN <<1, 1>>
    ELSE IF habit.type # "CHECK" /\ habit.goalTarget > 0
    THEN <<Min(IF log.value = Undefined THEN 0 ELSE log.value, habit.goalTarget),
           habit.goalTarget>>
    ELSE <<0, 1>>

\* The fraction reaches 1.0.
reachesOne(f) == f[1] >= f[2]

\* Math.round(100 * numerator / denominator), or 0 with no denominator.
consistencyPct(numerator, denominator) ==
    IF denominator = 0 THEN 0
    ELSE (200 * numerator + denominator) \div (2 * denominator)

NoStats == [numerator |-> 0, denominator |-> 0, skips |-> 0]

\* getConsistencyStats, every schedule but TIMES_PER_WEEK: the loop over rangeDates.
RECURSIVE tallyDays(_, _, _, _)
tallyDays(habit, logsByDate, dates, acc) ==
    IF dates = <<>> THEN acc
    ELSE LET date == Head(dates)
             log == logAt(logsByDate, date)
             next == IF ~isHabitScheduledOnDate(habit, date) THEN acc
                     ELSE IF log.status = "SKIP"
                     THEN [acc EXCEPT !.skips = @ + 1]
                     ELSE [acc EXCEPT
                             !.denominator = @ + 1,
                             !.numerator = @ + (IF reachesOne(fractionalDoneEquivalence(habit, log))
                                                THEN 1 ELSE 0)]
         IN tallyDays(habit, logsByDate, Tail(dates), next)

\* The days of rangeDates in the week that starts on monday whose
\* done-equivalence reaches 1.
doneDaysOfWeek(habit, logsByDate, rangeDates, monday) ==
    {i \in 1..Len(rangeDates) :
        /\ mondayOf(rangeDates[i]) = monday
        /\ reachesOne(fractionalDoneEquivalence(habit, logAt(logsByDate, rangeDates[i])))}

\* getConsistencyStats, TIMES_PER_WEEK: the weekly targets, week after week.
RECURSIVE tallyWeeks(_, _, _, _, _)
tallyWeeks(habit, logsByDate, rangeDates, mondays, acc) ==
    IF mondays = {} THEN acc
    ELSE LET monday == CHOOSE m \in mondays : \A o \in mondays : m <= o
             done == Cardinality(doneDaysOfWeek(habit, logsByDate, rangeDates, monday))
         IN tallyWeeks(habit, logsByDate, rangeDates, mondays \ {monday},
                       [acc EXCEPT !.denominator = @ + habit.timesPerWeek,
                                   !.numerator = @ + Min(habit.timesPerWeek, done)])

getConsistencyStats_skipsCountAgainst(habit, logsByDate, rangeDates) ==
    LET scheduled == {i \in 1..Len(rangeDates) : isHabitScheduledOnDate(habit, rangeDates[i])}
        done == {i \in scheduled :
                    /\ logAt(logsByDate, rangeDates[i]).status # "SKIP"
                    /\ reachesOne(fractionalDoneEquivalence(habit, logAt(logsByDate, rangeDates[i])))}
        skipped == {i \in scheduled : logAt(logsByDate, rangeDates[i]).status = "SKIP"}
    IN [numerator |-> Cardinality(done), denominator |-> Cardinality(scheduled),
        skips |-> Cardinality(skipped),
        consistencyPct |-> consistencyPct(Cardinality(done), Cardinality(scheduled))]

getConsistencyStats(habit, logsByDate, rangeDates) ==
    LET skipped == {i \in 1..Len(rangeDates) :
                       /\ isHabitScheduledOnDate(habit, rangeDates[i])
                       /\ logAt(logsByDate, rangeDates[i]).status = "SKIP"}
        tally == IF habit.scheduleType = "TIMES_PER_WEEK"
                 THEN [tallyWeeks(habit, logsByDate, rangeDates,
                                  {mondayOf(rangeDates[i]) : i \in 1..Len(rangeDates)}, NoStats)
                         EXCEPT !.skips = Cardinality(skipped)]
                 ELSE tallyDays(habit, logsByDate, rangeDates, NoStats)
    IN [numerator |-> tally.numerator, denominator |-> tally.denominator,
        skips |-> tally.skips,
        consistencyPct |-> consistencyPct(tally.numerator, tally.denominator)]

\* getCurrentStreak looks back this many days unless told otherwise.
DefaultLookbackDays == 365
\* getCurrentStreak looks back at most this many weeks for TIMES_PER_WEEK.
MaxStreakWeeks == 52

\* getCurrentStreak, every schedule but TIMES_PER_WEEK: the walk back from today.
RECURSIVE walkBackDays(_, _, _, _, _)
walkBackDays(habit, logsByDate, date, left, streak) ==
    IF left = 0 \/ date < habit.startDate THEN streak
    ELSE IF \/ ~isHabitScheduledOnDate(habit, date)
            \/ logAt(logsByDate, date).status = "SKIP"
    THEN walkBackDays(habit, logsByDate, date - 1, left - 1, streak)
    ELSE IF isDoneEquivalent(habit, logAt(logsByDate, date))
    THEN walkBackDays(habit, logsByDate, date - 1, left - 1, streak + 1)
    ELSE streak

\* getCurrentStreak, TIMES_PER_WEEK: the walk back week by week.
RECURSIVE walkBackWeeks(_, _, _, _, _, _)
walkBackWeeks(habit, logsByDate, today, monday, left, streak) ==
    LET window == {d \in monday..(monday + 6) : d >= habit.startDate /\ d <= today}
        done == {d \in window : isDoneEquivalent(habit, logAt(logsByDate, d))}
    IN IF left = 0 \/ window = {} THEN streak
       ELSE IF Cardinality(done) >= habit.timesPerWeek
       THEN walkBackWeeks(habit, logsByDate, today, monday - 7, left - 1, streak + 1)
       ELSE streak

getCurrentStreak_skipEndsStreak(habit, logsByDate, today, lookbackDays) ==
    LET days == {d \in habit.startDate..today : d > today - lookbackDays}
        broken == {d \in days :
                      /\ isHabitScheduledOnDate(habit, d)
                      /\ ~isDoneEquivalent(habit, logAt(logsByDate, d))}
    IN Cardinality({d \in days :
                       /\ isHabitScheduledOnDate(habit, d)
                       /\ \A b \in broken : b < d})

getCurrentStreak(habit, logsByDate, today, lookbackDays) ==
    IF habit.scheduleType = "TIMES_PER_WEEK"
    THEN walkBackWeeks(habit, logsByDate, today, mondayOf(today), MaxStreakWeeks, 0)
    ELSE walkBackDays(habit, logsByDate, today, lookbackDays, 0)

\* How a habit logs: a CHECK habit with or without PARTIAL, a COUNT habit with a goal of 2.
LoggingModes ==
    {[type |-> "CHECK", goalTarget |-> Undefined, allowPartial |-> FALSE],
     [type |-> "CHECK", goalTarget |-> Undefined, allowPartial |-> TRUE],
     [type |-> "COUNT", goalTarget |-> 2, allowPartial |-> FALSE]}

\* When a habit is scheduled: daily, on Mondays and Wednesdays, every second
\* day, every 0 days (taken as every day), twice a week.
ScheduleShapes ==
    {[scheduleType |-> "DAILY", weekdays |-> {}, everyNDays |-> Undefined, timesPerWeek |-> Undefined],
     [scheduleType |-> "WEEKDAYS", weekdays |-> {1, 3}, everyNDays |-> Undefined, timesPerWeek |-> Undefined],
     [scheduleType |-> "EVERY_N_DAYS", weekdays |-> {}, everyNDays |-> 2, timesPerWeek |-> Undefined],
     [scheduleType |-> "EVERY_N_DAYS", weekdays |-> {}, everyNDays |-> 0, timesPerWeek |-> Undefined],
     [scheduleType |-> "TIMES_PER_WEEK", weekdays |-> {}, everyNDays |-> Undefined, timesPerWeek |-> 2]}

\* makeHabit: the habits handed to the engine.
HabitShapes ==
    {[id |-> "h1", type |-> m.type, goalTarget |-> m.goalTarget, allowPartial |-> m.allowPartial,
      allowSkip |-> TRUE,
      scheduleType |-> s.scheduleType, weekdays |-> s.weekdays, everyNDays |-> s.everyNDays,
      timesPerWeek |-> s.timesPerWeek, startDate |-> startDate] :
        m \in LoggingModes, s \in ScheduleShapes, startDate \in 0..1}

\* What a day's log can say: nothing logged (NONE without a value), done,
\* skipped, partly done without and with a value below the goal, a value at
\* the goal under status NONE.
OutcomeShapes ==
    {[status |-> "NONE", value |-> Undefined, logged |-> FALSE],
     [status |-> "DONE", value |-> Undefined, logged |-> TRUE],
     [status |-> "SKIP", value |-> Undefined, logged |-> TRUE],
     [status |-> "PARTIAL", value |-> Undefined, logged |-> TRUE],
     [status |-> "PARTIAL", value |-> 1, logged |-> TRUE],
     [status |-> "NONE", value |-> 2, logged |-> TRUE]}

\* logsMap: the Map from date to log.
logsMap(outcomes) ==
    [date \in DOMAIN outcomes |->
        IF outcomes[date].logged
        THEN [id |-> date + 1, habitId |-> "h1", date |-> date,
              status |-> outcomes[date].status, value |-> outcomes[date].value]
        ELSE NoLog]

\* The dates lo..hi in ascending order.
datesFrom(lo, hi) == [i \in 1..(hi - lo + 1) |-> lo + i - 1]

habitUnchanged ==
    UNCHANGED <<db, trip, now, timerState, timeEntries, ran, dailyCapacity, calls,
                task, categoryKind, availableMinutesRemaining,
                tasks, availableMinutes, maxTasks>>

CallGetConsistencyStats ==
    /\ ret = NoCall
    /\ \E habit \in HabitShapes, outcomes \in [0..MaxDay -> OutcomeShapes],
          hi \in 0..MaxDay :
            ret' = [fn |-> "getConsistencyStats", habit |-> habit,
                    logsByDate |-> logsMap(outcomes), rangeDates |-> datesFrom(0, hi),
                    val |-> getConsistencyStats(habit, logsMap(outcomes), datesFrom(0, hi))]
    /\ UNCHANGED habitLogs
    /\ habitUnchanged

CallGetCurrentStreak ==
    /\ ret = NoCall
    /\ \E habit \in HabitShapes, outcomes \in [0..MaxDay -> OutcomeShapes],
          today \in 0..MaxDay :
            ret' = [fn |-> "getCurrentStreak", habit |-> habit,
                    logsByDate |-> logsMap(outcomes), today |-> today,
                    val |-> getCurrentStreak(habit, logsMap(outcomes), today,
                                             DefaultLookbackDays)]
    /\ UNCHANGED habitLogs
    /\ habitUnchanged

NextHabit == CallGetConsistencyStats \/ CallGetCurrentStreak

SpecHabit == Init /\ [][NextHabit]_vars

\* ---------------------------------------------------------------- habit logs

\* The dates the Today strip and the Day Editor log for.
EditorDates == {0, 1}

\* db.habits: a CHECK habit and a COUNT habit with a goal of 2.
StoredHabits ==
    [id \in HabitIds |->
        IF id = "h1"
        THEN [id |-> id, type |-> "CHECK", goalTarget |-> Undefined,
              allowPartial |-> FALSE, allowSkip |-> TRUE,
              scheduleType |-> "DAILY", weekdays |-> {}, everyNDays |-> Undefined,
              timesPerWeek |-> Undefined, startDate |-> 0]
        ELSE [id |-> id, type |-> "COUNT", goalTarget |-> 2,
              allowPartial |-> TRUE, allowSkip |-> TRUE,
              scheduleType |-> "DAILY", weekdays |-> {}, everyNDays |-> Undefined,
              timesPerWeek |-> Undefined, startDate |-> 0]]

\* The stored logs of the habit on the date.
logsOf(table, habitId, date) == {l \in table : l.habitId = habitId /\ l.date = date}

\* generateId() for a new log.
freshLogId ==
    LET used == {l.id : l \in habitLogs}
    IN CHOOSE i \in 1..(Cardinality(used) + 1) : i \notin used

\* The table after the upsert: the stored record of the pair overwritten in
\* place, or a new record when there is none. The note is carried along
\* with the record and is left out.
upsertedLogs_alwaysAdds(table, habitId, date, status, value, id) ==
    table \cup {[id |-> id, habitId |-> habitId, date |-> date,
                 status |-> status, value |-> value]}

upsertedLogs(table, habitId, date, status, value, id) ==
    IF logsOf(table, habitId, date) = {}
    THEN table \cup {[id |-> id, habitId |-> habitId, date |-> date,
                      status |-> status, value |-> value]}
    ELSE LET old == CHOOSE l \in logsOf(table, habitId, date) : TRUE
         IN (table \ {old}) \cup {[old EXCEPT !.status = status, !.value = value]}

\* The step every caller of upsertHabitLog takes; the store holds at most
\* MaxLogs records.
upsertStep(habitId, date, status, value) ==
    /\ logsOf(habitLogs, habitId, date) # {} \/ Cardinality(habitLogs) < MaxLogs
    /\ habitLogs' = upsertedLogs(habitLogs, habitId, date, status, value, freshLogId)
    /\ ret' = [fn |-> "upsertHabitLog", habitId |-> habitId, date |-> date,
               status |-> status, value |-> value,
               updated |-> logsOf(habitLogs, habitId, date) # {}]
    /\ habitUnchanged

upsertHabitLog(habitId, date, status, value) == upsertStep(habitId, date, status, value)

\* getLog of HabitsPage: the log of the pair in the Map built from db.habitLogs.
getLog(habitId, date) ==
    IF logsOf(habitLogs, habitId, date) = {} THEN NoLog
    ELSE CHOOSE l \in logsOf(habitLogs, habitId, date) : TRUE

\* The Done, Partial, Skip and Clear buttons; Partial and Skip are shown
\* when the habit allows them.
setStatus(habit, date, status) ==
    /\ status = "PARTIAL" => habit.allowPartial
    /\ status = "SKIP" => habit.allowSkip
    /\ upsertStep(habit.id, date, status,
                  IF status \in {"DONE", "PARTIAL"} THEN getLog(habit.id, date).value
                  ELSE Undefined)

\* The -, + and number field of a habit that is not CHECK.
setNumericValue(habit, date, nextValue) ==
    LET safe == Max(0, nextValue)
        goal == IF habit.goalTarget = Undefined THEN 0 ELSE habit.goalTarget
    IN /\ habit.type # "CHECK"
       /\ upsertStep(habit.id, date,
                     IF safe >= goal /\ goal > 0 THEN "DONE"
                     ELSE IF safe > 0 THEN "PARTIAL" ELSE "NONE",
                     safe)

NextHabitLog ==
    \/ \E id \in HabitIds, date \in EditorDates, status \in HabitLogStatus :
            setStatus(StoredHabits[id], date, status)
    \/ \E id \in HabitIds, date \in EditorDates, nextValue \in {-1, 2} :
            setNumericValue(StoredHabits[id], date, nextValue)
    \/ \E habitId \in HabitIds, date \in EditorDates, status \in {"DONE", "PARTIAL"},
          value \in {1, 2} :
            upsertHabitLog(habitId, date, status, value)

SpecHabitLog == Init /\ [][NextHabitLog]_vars

\* ---------------------------------------------------------------- claims C1-C7

calledSplit == ret.fn = "buildStabilizerStackSplit"

calledStack == ret.fn = "buildStabilizerStack"

calledScore == ret.fn = "scoreTask"

\* Positions of the input list holding a LIFE_ADMIN task with status TODAY.
todayPositions == {i \in 1..Len(tasks) :
                     tasks[i].domain = "LIFE_ADMIN" /\ tasks[i].status = "TODAY"}

inSeq(x, xs) == \E k \in 1..Len(xs) : xs[k] = x

\* The estimate the selection loop counts for a task: a missing one is 15.
countedEstimate(t) == IF t.estimateMinutes = Undefined THEN 15 ELSE t.estimateMinutes

RECURSIVE countedMinutes(_)
countedMinutes(ts) ==
    IF Len(ts) = 0 THEN 0 ELSE countedEstimate(ts[1]) + countedMinutes(Tail(ts))

\* C1: buildStabilizerStackSplit returns pinned and suggested lists whose
\* combined length is at most maxTasks, for every task list, budget and
\* maxTasks >= 0; so does the merged list of buildStabilizerStack.
C1_AtMostMaxTasks ==
    /\ calledSplit => Len(ret.val.pinned) + Len(ret.val.suggested) <= maxTasks
    /\ calledStack => Len(ret.val) <= maxTasks

\* C1 witness: a call that fills every slot, with both tiers used, from a
\* list longer than maxTasks.
C1_Witness ==
    /\ calledSplit
    /\ Len(tasks) > maxTasks
    /\ Len(ret.val.pinned) > 0
    /\ Len(ret.val.suggested) > 0
    /\ Len(ret.val.pinned) + Len(ret.val.suggested) = maxTasks

\* C2 as stated: the summed estimates of the suggested tier (a missing
\* estimate counted as 15) never exceed availableMinutes.
C2_SuggestedWithinBudget ==
    calledSplit => countedMinutes(ret.val.suggested) <= availableMinutes

\* C2 amended: the suggested tier's summed estimates stay within
\* availableMinutes whenever availableMinutes > 0 and every suggested task
\* has an estimate; the sum exceeds availableMinutes only through one task
\* accepted by the first-task rule: then exactly one suggested task has a
\* non-zero counted estimate, and availableMinutes is 0 or that task has no
\* estimate.
C2_SuggestedWithinBudgetButFirst ==
    calledSplit =>
        LET sug == ret.val.suggested
            nonZero == {i \in 1..Len(sug) : countedEstimate(sug[i]) > 0}
        IN /\ (/\ availableMinutes > 0
               /\ \A i \in 1..Len(sug) : sug[i].estimateMinutes # Undefined)
              => countedMinutes(sug) <= availableMinutes
           /\ countedMinutes(sug) > availableMinutes
              => /\ Cardinality(nonZero) = 1
                 /\ \A i \in nonZero :
                       availableMinutes = 0 \/ sug[i].estimateMinutes = Undefined

\* C2 witness: a 10-minute budget taken by one suggested task, while a
\* second unblocked 10-minute candidate and an open slot are left unused.
C2_Witness ==
    /\ calledSplit
    /\ availableMinutes = 10
    /\ maxTasks = 2
    /\ Len(ret.val.pinned) = 0
    /\ Len(ret.val.suggested) = 1
    /\ countedMinutes(ret.val.suggested) = availableMinutes
    /\ \E i \in 1..Len(tasks) :
          /\ tasks[i].status = "BACKLOG"
          /\ tasks[i].blockedByTaskIds = {}
          /\ tasks[i].estimateMinutes = 10
          /\ ~inSeq(tasks[i], ret.val.suggested)

\* C3 as stated: every LIFE_ADMIN task with status TODAY of the input is in
\* the pinned output.
C3_EveryTodayTaskPinned ==
    calledSplit => \A i \in todayPositions : inSeq(tasks[i], ret.val.pinned)

\* C3 amended: the pinned output is exactly the first maxTasks LIFE_ADMIN
\* tasks with status TODAY, in input order, whether or not they are blocked,
\* over the budget or of one category kind; a TODAY task after the first
\* maxTasks is left out of pinned.
C3_FirstMaxTasksTodayPinned ==
    calledSplit =>
        /\ \A i \in todayPositions :
              inSeq(tasks[i], ret.val.pinned)
                  <=> Cardinality({j \in todayPositions : j <= i}) <= maxTasks
        /\ \A k \in 1..Len(ret.val.pinned) :
              \E i \in todayPositions : tasks[i] = ret.val.pinned[k]
        /\ \A k, l \in 1..Len(ret.val.pinned) :
              k < l => \E i, j \in todayPositions :
                          /\ i < j
                          /\ tasks[i] = ret.val.pinned[k]
                          /\ tasks[j] = ret.val.pinned[l]

\* C3 witness: pinned holds a blocked task and a task whose estimate alone
\* exceeds the budget, both of one category kind.
C3_Witness ==
    /\ calledSplit
    /\ availableMinutes = 10
    /\ Len(ret.val.pinned) = 2
    /\ \E k, l \in 1..2 :
          /\ ret.val.pinned[k].blockedByTaskIds # {}
          /\ ret.val.pinned[l].estimateMinutes = 50
          /\ ret.val.pinned[k].categoryId = ret.val.pinned[l].categoryId

\* The tasks a call returned, pinned then suggested.
returnedTasks == IF calledSplit THEN ret.val.pinned \o ret.val.suggested
                 ELSE IF calledStack THEN ret.val
                 ELSE <<>>

\* C4: every task returned by buildStabilizerStack / buildStabilizerStackSplit
\* has domain LIFE_ADMIN, is not DONE or ARCHIVED and is not a PENDING task
\* whose nextActionAt is in the future.
C4_OnlyActionableLifeAdmin ==
    \A k \in 1..Len(returnedTasks) :
        LET t == returnedTasks[k]
        IN /\ t.domain = "LIFE_ADMIN"
           /\ t.status \notin {"DONE", "ARCHIVED"}
           /\ ~(t.status = "PENDING" /\ t.nextActionAt # Undefined /\ t.nextActionAt > now)

\* C4 witness: a list holding a pinned BUSINESS task, a waiting PENDING task
\* and a PENDING task whose nextActionAt has elapsed: only the last is
\* returned.
C4_Witness ==
    /\ calledStack
    /\ maxTasks >= 2
    /\ \E i \in 1..Len(tasks) : tasks[i].domain = "BUSINESS" /\ tasks[i].status = "TODAY"
    /\ \E i \in 1..Len(tasks) :
          tasks[i].status = "PENDING" /\ tasks[i].nextActionAt > now
    /\ \E i \in 1..Len(tasks) :
          /\ tasks[i].status = "PENDING"
          /\ tasks[i].nextActionAt <= now
          /\ ret.val = <<tasks[i]>>

\* C5: for a PENDING task isActionable(task, now) is the negation of
\* isWaiting(task, now), also with nextActionAt absent or equal to now; for
\* any other status isWaiting(task, now) is false.
C5_ActionableIffNotWaiting ==
    /\ (ret.fn = "isActionable" /\ task.status = "PENDING")
          => ret.val = ~isWaiting(task, now)
    /\ (ret.fn = "isWaiting" /\ task.status = "PENDING")
          => ret.val = ~isActionable(task, now)
    /\ (ret.fn = "isWaiting" /\ task.status # "PENDING") => ret.val = FALSE

\* C5 witness: isActionable called on a PENDING task whose nextActionAt is
\* exactly now.
C5_Witness ==
    /\ ret.fn = "isActionable"
    /\ task.status = "PENDING"
    /\ task.nextActionAt = now
    /\ ret.val = TRUE

\* C6: scoreTask returns -1 for a DONE or ARCHIVED task, for a PENDING task
\* whose nextActionAt is in the future and for a task with a non-empty
\* blockedByTaskIds, whatever the other fields, the kind and the minutes.
C6_ExcludedScoreMinusOne ==
    (/\ calledScore
     /\ \/ task.status \in {"DONE", "ARCHIVED"}
        \/ (task.status = "PENDING" /\ task.nextActionAt # Undefined
                                    /\ task.nextActionAt > now)
        \/ task.blockedByTaskIds # {})
    => ret.val = -1

\* C6 witness: scoreTask called on a blocked BACKLOG task that is due,
\* small and of kind LEGAL, with 120 minutes left.
C6_Witness ==
    /\ calledScore
    /\ task.status = "BACKLOG"
    /\ task.blockedByTaskIds # {}
    /\ task.estimateMinutes = 10
    /\ task.dueDate = 3
    /\ categoryKind = "LEGAL"
    /\ availableMinutesRemaining = 120
    /\ ret.val = -1

\* C7: for an actionable, unblocked task scoreTask returns -1 exactly when
\* estimateMinutes is set, exceeds availableMinutesRemaining and
\* availableMinutesRemaining > 0; otherwise, and always with a remaining
\* budget of 0, the result is >= 0.
C7_OverCapacityExactly ==
    (/\ calledScore
     /\ task.status \notin {"DONE", "ARCHIVED"}
     /\ ~(task.status = "PENDING" /\ task.nextActionAt # Undefined
                                  /\ task.nextActionAt > now)
     /\ task.blockedByTaskIds = {})
    => /\ ret.val = -1 <=> (/\ task.estimateMinutes # Undefined
                            /\ task.estimateMinutes > availableMinutesRemaining
                            /\ availableMinutesRemaining > 0)
       /\ ret.val # -1 => ret.val >= 0
       /\ availableMinutesRemaining = 0 => ret.val >= 0

\* C7 witness: a 45-minute task scored with a remaining budget of 0.
C7_Witness ==
    /\ calledScore
    /\ task.status = "BACKLOG"
    /\ task.blockedByTaskIds = {}
    /\ task.estimateMinutes = 45
    /\ availableMinutesRemaining = 0
    /\ ret.val >= 0

\* ---------------------------------------------------------------- claims C8-C10

\* C8: from a BACKLOG task with no completedAt, markTaskDone gives DONE with
\* completedAt set, markTaskArchived then gives ARCHIVED with that same
\* completedAt, and unmarkTaskDone then gives BACKLOG with completedAt
\* cleared.
C8_LifecycleRoundTrip ==
    \A id \in StoreIds :
        /\ trip[id].stage = "done"
              => /\ db[id].status = "DONE"
                 /\ db[id].completedAt # Undefined
                 /\ db[id].completedAt = trip[id].completedAt
        /\ trip[id].stage = "archived"
              => /\ db[id].status = "ARCHIVED"
                 /\ db[id].completedAt # Undefined
                 /\ db[id].completedAt = trip[id].completedAt
        /\ trip[id].stage = "unarchived"
              => /\ db[id].status = "BACKLOG"
                 /\ db[id].completedAt = Undefined

\* C8 witness: a task archived on a later day than it was marked done, with
\* the first day still its completedAt, while the other task has come through
\* the whole round trip.
C8_Witness ==
    \E id, other \in StoreIds :
        /\ trip[id].stage = "archived"
        /\ db[id].completedAt < db[id].updatedAt
        /\ trip[other].stage = "unarchived"
        /\ db[other].status = "BACKLOG"

\* C9: unmarkTaskDone always leaves the task BACKLOG with completedAt
\* cleared, whatever it was before; after it the task is actionable, not
\* waiting and not pinned.
C9_UndoAlwaysBacklog ==
    [][\A id \in StoreIds :
          unmarkTaskDone(id)
             => /\ db'[id].status = "BACKLOG"
                /\ db'[id].completedAt = Undefined
                /\ isActionable(db'[id], now')
                /\ ~isWaiting(db'[id], now')
                /\ db'[id].status # "TODAY"]_vars

\* C9 witness: a task that waited for a nextActionAt still in the future,
\* was completed, archived and undone: it is BACKLOG and actionable.
C9_Witness ==
    \E id \in StoreIds :
        /\ trip[id].stage = "unarchived"
        /\ db[id].nextActionAt # Undefined
        /\ db[id].nextActionAt > now
        /\ db[id].status = "BACKLOG"
        /\ db[id].completedAt = Undefined

\* C10: markTaskDone changes only status (DONE), completedAt (now) and
\* updatedAt (now) of the named task; its other fields and every other task
\* stay as they were.
C10_MarkDoneFrame ==
    [][\A id \in StoreIds :
          markTaskDone(id)
             => db' = [db EXCEPT ![id] = [db[id] EXCEPT !.status = "DONE",
                                                        !.completedAt = now,
                                                        !.updatedAt = now]]]_vars

\* C10 witness: markTaskDone has completed a task that carries a
\* nextActionAt, a pendingReason and blockers, all still in place.
C10_Witness ==
    \E id \in StoreIds :
        /\ trip[id].stage = "done"
        /\ db[id].status = "DONE"
        /\ db[id].completedAt = now
        /\ db[id].nextActionAt # Undefined
        /\ db[id].pendingReason # ""
        /\ db[id].blockedByTaskIds # {}

\* ---------------------------------------------------------------- claims C11-C14

SpecifiedTransition(from, to) ==
    \/ from = "BACKLOG" /\ to = "TODAY"
    \/ from = "TODAY" /\ to = "BACKLOG"
    \/ from \in {"BACKLOG", "TODAY", "PENDING"} /\ to = "IN_PROGRESS"
    \/ from # "ARCHIVED" /\ to = "DONE"
    \/ from = "DONE" /\ to = "BACKLOG"
    \/ from = "DONE" /\ to = "ARCHIVED"
    \/ from = "ARCHIVED" /\ to = "BACKLOG"
    \/ from # "ARCHIVED" /\ to = "PENDING"
    \/ from = "PENDING" /\ to = "BACKLOG"

\* C12: every status change made by pin, unpin, startTimer, markTaskDone,
\* markTaskArchived, unmarkTaskDone, Unarchive, the pending sweep and subtask
\* auto-completion is a transition of the status state machine: a timer
\* start reaches IN_PROGRESS only from BACKLOG, TODAY or PENDING, archive
\* applies only from DONE, and ARCHIVED is left only by undo to BACKLOG.
C12_OnlySpecifiedTransitions ==
    [][\A id \in StoreIds :
          db'[id].status # db[id].status
             => SpecifiedTransition(db[id].status, db'[id].status)]_vars

\* C13: when transitionDuePendingTasks has run, no task is PENDING with a
\* nextActionAt at or before the sweep time; the tasks that were PENDING
\* with an elapsed nextActionAt are now BACKLOG and the returned count is
\* their number; every other task is unchanged.
C13_SweepMovesExactlyDueTasks ==
    [][transitionDuePendingTasks
          => LET elapsed == {id \in StoreIds :
                                /\ db[id].status = "PENDING"
                                /\ db[id].nextActionAt # Undefined
                                /\ db[id].nextActionAt <= now}
             IN /\ \A id \in StoreIds :
                      ~(/\ db'[id].status = "PENDING"
                        /\ db'[id].nextActionAt # Undefined
                        /\ db'[id].nextActionAt <= now)
                /\ \A id \in elapsed : db'[id].status = "BACKLOG"
                /\ ret'.val = Cardinality(elapsed)
                /\ \A id \in StoreIds \ elapsed : db'[id] = db[id]]_vars

\* C13 witness: the sweep has just moved one task whose nextActionAt had
\* elapsed and returned 1, beside a PENDING task that still waits.
C13_Witness ==
    \E id, other \in StoreIds :
        /\ ret = [fn |-> "transitionDuePendingTasks", val |-> 1]
        /\ db[id].status = "BACKLOG"
        /\ db[id].nextActionAt # Undefined
        /\ db[id].nextActionAt <= now
        /\ db[id].updatedAt = now
        /\ db[id].pendingReason # ""
        /\ db[other].status = "PENDING"
        /\ db[other].nextActionAt > now

\* C14: whenever toggling a subtask leaves the non-empty subtask list with
\* every subtask done, the task ends DONE with completedAt set; a toggle
\* that leaves a subtask undone completes nothing.
C14_AllSubtasksDoneCompletes ==
    [][\A id \in StoreIds, subId \in {"s1", "s2"} :
          toggleSubtask(id, subId)
             => /\ (Len(db'[id].subtasks) > 0 /\ everyDone(db'[id].subtasks))
                      => /\ db'[id].status = "DONE"
                         /\ db'[id].completedAt # Undefined
                /\ (Len(db'[id].subtasks) = 0 \/ ~everyDone(db'[id].subtasks))
                      => /\ db'[id].status = db[id].status
                         /\ db'[id].completedAt = db[id].completedAt]_vars

\* ---------------------------------------------------------------- claims C15-C17

\* The task of the call is one scoreTask excludes at the remaining minutes
\* of the call, whatever its kind and dueDate.
excludedTask ==
    \/ task.status \in {"DONE", "ARCHIVED"}
    \/ task.status = "PENDING" /\ task.nextActionAt # Undefined /\ task.nextActionAt > now
    \/ task.blockedByTaskIds # {}
    \/ /\ task.estimateMinutes # Undefined
       /\ task.estimateMinutes > availableMinutesRemaining
       /\ availableMinutesRemaining > 0

calledByKind == ret.fn = "scoreTaskByKind" /\ availableMinutesRemaining = 120

\* C15 as stated: for any task, the scores at 120 remaining minutes under
\* LEGAL, MONEY and MAINTENANCE are strictly decreasing.
C15_KindOrderAnyTask ==
    calledByKind => /\ ret.val["LEGAL"] > ret.val["MONEY"]
                    /\ ret.val["MONEY"] > ret.val["MAINTENANCE"]

\* C15 amended: for a task that is actionable, unblocked and estimated at no
\* more than 120 minutes the three scores are strictly decreasing; for any
\* other task all three are -1.
C15_KindOrderScoreable ==
    calledByKind =>
        IF excludedTask
        THEN \A kind \in DOMAIN ret.val : ret.val[kind] = -1
        ELSE /\ ret.val["LEGAL"] > ret.val["MONEY"]
             /\ ret.val["MONEY"] > ret.val["MAINTENANCE"]
             /\ ret.val["MAINTENANCE"] >= 0

\* C15 witness: three decreasing scores of an IN_PROGRESS task with a due
\* date and money impact.
C15_Witness ==
    /\ calledByKind
    /\ task.status = "IN_PROGRESS"
    /\ task.dueDate # Undefined
    /\ task.moneyImpact # Undefined
    /\ ret.val["LEGAL"] > ret.val["MONEY"]
    /\ ret.val["MONEY"] > ret.val["MAINTENANCE"]
    /\ ret.val["MAINTENANCE"] > 0

calledByDue == ret.fn = "scoreTaskByDue"

\* C16 as stated: the task due in 2 days scores strictly more than the one
\* due in 10 days, which scores strictly more than the one with no dueDate.
C16_DueOrderStrict ==
    calledByDue => /\ ret.val.soon > ret.val.later
                   /\ ret.val.later > ret.val.none

\* C16 amended: for a task scoreTask does not exclude, due in 2 days scores
\* strictly more than due in 10 days, and due in 10 days scores the same as
\* no dueDate; for an excluded task all three are -1.
C16_DueOrderSoonOnly ==
    calledByDue =>
        IF excludedTask
        THEN ret.val.soon = -1 /\ ret.val.later = -1 /\ ret.val.none = -1
        ELSE /\ ret.val.soon > ret.val.later
             /\ ret.val.later = ret.val.none
             /\ ret.val.none >= 0

\* C16 witness: a scoreable task scored higher when due in 2 days, and the
\* same when due in 10 days as with no dueDate.
C16_Witness ==
    /\ calledByDue
    /\ ~excludedTask
    /\ task.status = "BACKLOG"
    /\ ret.val.soon = ret.val.later + 35
    /\ ret.val.later = ret.val.none
    /\ ret.val.none > 0

\* C17: for two scoreable tasks, the first TODAY and the second of any
\* other status, the first scores strictly more, whatever the category
\* kinds and other fields.
C17_TodayOutranks ==
    ret.fn = "scoreTaskPair"
        => (ret.val.a # -1 /\ ret.val.b # -1 => ret.val.a > ret.val.b)

\* ---------------------------------------------------------------- claims C18-C20

\* The scored candidates of the call that returned, best first.
scoredNow ==
    scoredOf(poolOf(tasks, now), idsOf(ret.val.pinned), categories, availableMinutes, now)

\* Slots left to the suggested tier, and minutes left after the pinned tier.
openSlots == maxTasks - Len(ret.val.pinned)

minutesLeft == Max(0, availableMinutes - countedMinutes(ret.val.pinned))

kindsIn(ts, kind) ==
    Cardinality({i \in 1..Len(ts) : kindOf(categories, ts[i].categoryId) = kind})

\* The candidates before position i of the scored list that were accepted.
acceptedBefore(i) ==
    LET before == [k \in 1..(i - 1) |-> scoredNow[k].task]
    IN SelectSeq(before, LAMBDA t : inSeq(t, ret.val.suggested))

\* C18: when the scored pool is larger than the open slots the suggested
\* tier holds at most 2 tasks of any one category kind, tasks without a
\* matching category counting as one kind; otherwise the cap is not applied
\* and every candidate that fits the time budget is accepted.
C18_DiversityCap ==
    calledSplit =>
        /\ (Len(scoredNow) > openSlots)
              => \A kind \in CategoryKind \cup {""} :
                    kindsIn(ret.val.suggested, kind) <= 2
        /\ (Len(scoredNow) <= openSlots)
              => \A i \in 1..Len(scoredNow) :
                    ~inSeq(scoredNow[i].task, ret.val.suggested)
                       => (countedMinutes(acceptedBefore(i))
                           + countedEstimate(scoredNow[i].task) > minutesLeft)

\* C18 witness: three slots filled with two LEGAL tasks and one of another
\* kind, while a third 10-minute LEGAL candidate, scored above that one, was
\* passed over.
C18_Witness ==
    /\ calledSplit
    /\ openSlots = 3
    /\ availableMinutes = 30
    /\ Len(ret.val.suggested) = 3
    /\ kindsIn(ret.val.suggested, "LEGAL") = 2
    /\ kindOf(categories, ret.val.suggested[3].categoryId) # "LEGAL"
    /\ \E i \in 1..Len(scoredNow) :
          /\ ~inSeq(scoredNow[i].task, ret.val.suggested)
          /\ kindOf(categories, scoredNow[i].task.categoryId) = "LEGAL"
          /\ scoredNow[i].task.estimateMinutes = 10
          /\ \E k \in (i + 1)..Len(scoredNow) :
                scoredNow[k].task = ret.val.suggested[3]

\* Position i of the input holds an actionable, unblocked LIFE_ADMIN task
\* that is not pinned.
openCandidate(i) ==
    /\ tasks[i].domain = "LIFE_ADMIN"
    /\ tasks[i].status \notin {"DONE", "ARCHIVED"}
    /\ ~(/\ tasks[i].status = "PENDING"
         /\ tasks[i].nextActionAt # Undefined
         /\ tasks[i].nextActionAt > now)
    /\ tasks[i].blockedByTaskIds = {}
    /\ ~inSeq(tasks[i], ret.val.pinned)

\* The estimate of position i is set, non-zero and above a positive
\* availableMinutes.
overBudget(i) ==
    /\ tasks[i].estimateMinutes # Undefined
    /\ tasks[i].estimateMinutes > 0
    /\ tasks[i].estimateMinutes > availableMinutes
    /\ availableMinutes > 0

\* C19 as stated: with a slot open and an actionable, unblocked, unpinned
\* LIFE_ADMIN task in the input, the suggested tier is not empty.
C19_NeverEmptySuggested ==
    calledSplit =>
        ((openSlots > 0 /\ \E i \in 1..Len(tasks) : openCandidate(i))
            => Len(ret.val.suggested) > 0)

\* C19 amended: a task whose estimate exceeds a positive availableMinutes is
\* never suggested; with a slot open and a candidate that is not such a
\* task, the suggested tier is not empty and starts with the best-scoring
\* candidate, even when its estimate exceeds the minutes left.
C19_NeverEmptyWithinCapacity ==
    calledSplit =>
        /\ \A i \in 1..Len(tasks) :
              (openCandidate(i) /\ overBudget(i))
                 => ~inSeq(tasks[i], ret.val.suggested)
        /\ (openSlots > 0
            /\ \E i \in 1..Len(tasks) : openCandidate(i) /\ ~overBudget(i))
              => /\ Len(ret.val.suggested) > 0
                 /\ ret.val.suggested[1] = scoredNow[1].task

\* C19 witness: the pinned tier has left fewer minutes than the 10 of the
\* best candidate, and it is suggested all the same.
C19_Witness ==
    /\ calledSplit
    /\ availableMinutes = 15
    /\ Len(ret.val.pinned) = 1
    /\ Len(ret.val.suggested) = 1
    /\ openSlots > 1
    /\ countedEstimate(ret.val.suggested[1]) > minutesLeft
    /\ Len(scoredNow) > 1

\* scoreTask as the call scored a task of the input.
scoreIn(t) == scoreTask(t, kindOf(categories, t.categoryId), availableMinutes, now)

positionOf(t) == CHOOSE i \in 1..Len(tasks) : tasks[i].id = t.id

\* LEGAL est=10 due in 2 days, MONEY est=10, MAINTENANCE est=10.
exampleTasks ==
    withIds(<<[makeTask EXCEPT !.estimateMinutes = 10, !.dueDate = now + 2],
              [makeTask EXCEPT !.estimateMinutes = 10, !.categoryId = "cat-money"],
              [makeTask EXCEPT !.estimateMinutes = 10, !.categoryId = "cat-maint"]>>)

\* C20: the suggested tier is in non-increasing scoreTask order, equal
\* scores in input order; the example list gives LEGAL, MONEY, MAINTENANCE
\* with availableMinutes 30 and only LEGAL with availableMinutes 15.
C20_SuggestedOrder ==
    calledSplit =>
        /\ \A k, l \in 1..Len(ret.val.suggested) :
              k < l => /\ scoreIn(ret.val.suggested[k]) >= scoreIn(ret.val.suggested[l])
                       /\ (scoreIn(ret.val.suggested[k]) = scoreIn(ret.val.suggested[l]))
                             => (positionOf(ret.val.suggested[k])
                                 < positionOf(ret.val.suggested[l]))
        /\ (tasks = exampleTasks /\ maxTasks >= 3)
              => /\ (availableMinutes = 30) => (ret.val.suggested = tasks)
                 /\ (availableMinutes = 15) => (ret.val.suggested = <<tasks[1]>>)

\* C20 witness: the example list with availableMinutes 15, only LEGAL
\* suggested.
C20_Witness ==
    /\ calledSplit
    /\ tasks = exampleTasks
    /\ maxTasks = 3
    /\ availableMinutes = 15
    /\ ret.val.pinned = <<>>
    /\ ret.val.suggested = <<tasks[1]>>

\* ---------------------------------------------------------------- claims C21, C30

calledMinutes == ret.fn = "getEffectiveMinutes"

\* The default of the call's domain in the call's settings, 120 without one.
domainDefault ==
    LET stored == IF ret.domain = "BUSINESS"
                  THEN ret.settings.builderAvailableMinutes
                  ELSE ret.settings.availableMinutes
    IN IF stored = Undefined THEN 120 ELSE stored

\* C21: getEffectiveMinutes returns the override's minutes when an override
\* dated today is supplied, 0 included; otherwise the domain's default from
\* settings, otherwise 120; an override of another day changes nothing.
C21_OverrideOfTodayElseDefault ==
    calledMinutes =>
        IF ret.dailyOverride # NoOverride /\ ret.dailyOverride.date = now
        THEN ret.val = ret.dailyOverride.minutes
        ELSE ret.val = domainDefault

\* C21 witness: an override of 0 minutes dated today, over a default of 120.
C21_Witness ==
    /\ calledMinutes
    /\ ret.dailyOverride # NoOverride
    /\ ret.dailyOverride.date = now
    /\ ret.dailyOverride.minutes = 0
    /\ ret.settings.availableMinutes = 120
    /\ ret.domain = "LIFE_ADMIN"
    /\ ret.val = 0

\* C30: after any interleaving of setDailyCapacity and clearDailyCapacity
\* calls there is at most one record per (date, domain); a call that
\* finishes leaves the other domain's records as they were, and when a
\* clearDailyCapacity finishes its domain has no record for today.
C30_OneCapacityRecordPerDateAndDomain ==
    [][/\ \A d \in 0..MaxTime, dom \in TaskDomain :
             Cardinality(capacityOf(dailyCapacity', d, dom)) <= 1
       /\ \A c \in calls \ calls' :
             /\ \A dom \in TaskDomain \ {c.domain} :
                   capacityOf(dailyCapacity', c.date, dom)
                      = capacityOf(dailyCapacity, c.date, dom)
             /\ (c.fn = "clearDailyCapacity")
                   => (capacityOf(dailyCapacity', c.date, c.domain) = {})]_vars

\* ---------------------------------------------------------------- claim C26

\* C26: whatever a write of the sweep changes is a task that is PENDING and
\* due in the store at that moment: a task marked DONE, pinned or deferred to
\* a later date since the sweep read its list is not moved to BACKLOG.
C26_SweepOverwritesNoChange ==
    [][\A pid \in 1..MaxCalls :
          transitionDuePendingTasksWrite(pid)
             => \A id \in StoreIds : (db'[id] # db[id]) => isDue(db[id], now)]_vars

\* ---------------------------------------------------------------- claim C28

\* No id occurs at two positions of the list.
distinctIds(ts) == \A k, l \in 1..Len(ts) : (ts[k].id = ts[l].id) => (k = l)

\* C28: for task lists with unique ids, pinned and suggested are disjoint, no
\* task is twice in the merged stack, and no suggested task has status TODAY.
C28_PinnedAndSuggestedDisjoint ==
    /\ calledSplit =>
          /\ idsOf(ret.val.pinned) \cap idsOf(ret.val.suggested) = {}
          /\ distinctIds(ret.val.pinned \o ret.val.suggested)
          /\ \A k \in 1..Len(ret.val.suggested) : ret.val.suggested[k].status # "TODAY"
    /\ calledStack => distinctIds(ret.val)

\* C28 witness: every pinned slot is taken, a further TODAY task is among
\* the scored candidates, and it is not suggested.
C28_Witness ==
    /\ calledSplit
    /\ maxTasks > 0
    /\ Len(ret.val.pinned) = maxTasks
    /\ \E i \in 1..Len(scoredNow) :
          /\ scoredNow[i].task.status = "TODAY"
          /\ ~inSeq(scoredNow[i].task, ret.val.suggested)
          /\ ~inSeq(scoredNow[i].task, ret.val.pinned)

\* ---------------------------------------------------------------- claim C29

\* db.tasks.toArray(): the stored tasks in primary-key order.
storedTasks(store) == [i \in 1..Len(storeOrder) |-> store[storeOrder[i]]]

\* The list with every task as the store holds it.
asStored(ts, store) == [i \in 1..Len(ts) |-> store[ts[i].id]]

\* The budgets and stack sizes the stack is compared under.
StackBudgets == {15, 120}

\* C29: a run of transitionDuePendingTasks changes isActionable of no task,
\* and buildStabilizerStackSplit at the same time returns the same tasks in
\* the same tiers and order as before the run.
C29_SweepLeavesStackAsItWas ==
    [][transitionDuePendingTasks =>
          /\ \A id \in StoreIds : isActionable(db'[id], now) = isActionable(db[id], now)
          /\ \A avail \in StackBudgets, maxT \in 1..MaxStack :
                LET before == buildStabilizerStackSplit(storedTasks(db), categories,
                                                        avail, maxT, now)
                    after == buildStabilizerStackSplit(storedTasks(db'), categories,
                                                       avail, maxT, now)
                IN /\ after.pinned = asStored(before.pinned, db')
                   /\ after.suggested = asStored(before.suggested, db')]_vars

\* C29 witness: the sweep has just moved both tasks, and t1, PENDING with an
\* elapsed nextActionAt before the run, is suggested.
C29_Witness ==
    /\ ret.fn = "transitionDuePendingTasks"
    /\ ret.val = 2
    /\ db["t1"].status = "BACKLOG"
    /\ db["t1"].nextActionAt # Undefined
    /\ inSeq(db["t1"], buildStabilizerStackSplit(storedTasks(db), categories,
                                                 120, MaxStack, now).suggested)

\* ---------------------------------------------------------------- claim C22

\* upsertHabitLog has just been called.
calledUpsert(r) == r.fn = "upsertHabitLog"

\* C22: the store never holds two logs of one (habitId, date) pair, and
\* after every upsertHabitLog call the one log of the call's pair carries
\* the call's status and value while the logs of all other pairs are as
\* they were.
C22_OneLogPerHabitAndDate ==
    /\ [](\A habitId \in HabitIds, date \in EditorDates :
            Cardinality(logsOf(habitLogs, habitId, date)) <= 1)
    /\ [](calledUpsert(ret) =>
            (/\ Cardinality(logsOf(habitLogs, ret.habitId, ret.date)) = 1
             /\ \A l \in logsOf(habitLogs, ret.habitId, ret.date) :
                    l.status = ret.status /\ l.value = ret.value))
    /\ [][calledUpsert(ret') =>
            (habitLogs' \ logsOf(habitLogs', ret'.habitId, ret'.date)
                = habitLogs \ logsOf(habitLogs, ret'.habitId, ret'.date))]_vars

\* C22 witness: a second call for a pair has overwritten its log, which now
\* says PARTIAL with value 2, next to the log of another pair.
C22_Witness ==
    /\ ret.fn = "upsertHabitLog"
    /\ ret.updated
    /\ \E l \in logsOf(habitLogs, ret.habitId, ret.date) :
            l.status = "PARTIAL" /\ l.value = 2
    /\ Cardinality(habitLogs) = 2

\* ---------------------------------------------------------------- claims C23, C24

\* getConsistencyStats was called for a habit that is not TIMES_PER_WEEK.
calledStats ==
    /\ ret.fn = "getConsistencyStats"
    /\ ret.habit.scheduleType # "TIMES_PER_WEEK"

\* The positions of rangeDates the called habit is scheduled on.
scheduledInRange ==
    {i \in 1..Len(ret.rangeDates) : isHabitScheduledOnDate(ret.habit, ret.rangeDates[i])}

\* Those of them whose log has the status.
withStatus(status) ==
    {i \in scheduledInRange : ret.logsByDate[ret.rangeDates[i]].status = status}

\* One DONE and one SKIP over 4 scheduled dates, nothing else logged.
oneDoneOneSkipOfFour ==
    /\ Cardinality(scheduledInRange) = 4
    /\ Cardinality(withStatus("DONE")) = 1
    /\ Cardinality(withStatus("SKIP")) = 1
    /\ \A i \in scheduledInRange :
            ret.logsByDate[ret.rangeDates[i]].status \in {"DONE", "SKIP"}
                \/ ret.logsByDate[ret.rangeDates[i]] = NoLog

\* C23: for a habit that is not TIMES_PER_WEEK, skips is the number of
\* scheduled dates of the range whose log is SKIP, the denominator is the
\* number of scheduled dates that are not SKIP, 0 <= numerator <= denominator,
\* and one DONE and one SKIP over 4 scheduled dates give 1, 3 and 1.
C23_SkipsLeaveTheDenominator ==
    calledStats =>
        /\ ret.val.skips = Cardinality(withStatus("SKIP"))
        /\ ret.val.denominator = Cardinality(scheduledInRange \ withStatus("SKIP"))
        /\ 0 <= ret.val.numerator
        /\ ret.val.numerator <= ret.val.denominator
        /\ (oneDoneOneSkipOfFour =>
                (ret.val.numerator = 1 /\ ret.val.denominator = 3 /\ ret.val.skips = 1))

\* C23 witness: a daily habit, 4 scheduled dates, one DONE and one SKIP.
C23_Witness ==
    /\ calledStats
    /\ ret.habit.scheduleType = "DAILY"
    /\ oneDoneOneSkipOfFour
    /\ ret.val.skips = 1
    /\ ret.val.denominator = 3

\* getCurrentStreak was called for a habit that is not TIMES_PER_WEEK.
calledStreak ==
    /\ ret.fn = "getCurrentStreak"
    /\ ret.habit.scheduleType # "TIMES_PER_WEEK"

\* A day that is neither unscheduled nor skipped: it adds to the streak or ends it.
countsForStreak(d) ==
    /\ isHabitScheduledOnDate(ret.habit, d)
    /\ ret.logsByDate[d].status # "SKIP"

\* The days from the habit's start up to today that end a streak.
streakEnders ==
    {d \in ret.habit.startDate..ret.today :
        countsForStreak(d) /\ ~isDoneEquivalent(ret.habit, ret.logsByDate[d])}

\* DONE, SKIP, DONE on the three days ending today, and the day before them
\* either precedes the habit's start or ends the streak.
doneSkipDone ==
    /\ ret.habit.scheduleType = "DAILY"
    /\ ret.today - 2 >= ret.habit.startDate
    /\ ret.logsByDate[ret.today].status = "DONE"
    /\ ret.logsByDate[ret.today - 1].status = "SKIP"
    /\ ret.logsByDate[ret.today - 2].status = "DONE"
    /\ (ret.today - 3 < ret.habit.startDate \/ (ret.today - 3) \in streakEnders)

\* C24: for a habit that is not TIMES_PER_WEEK, getCurrentStreak is the number
\* of done days after the latest scheduled, non-SKIP day that is not done;
\* SKIP days and unscheduled days neither add to it nor end it, and DONE,
\* SKIP, DONE on the three days ending today give 2.
C24_StreakCountsDoneDaysPastSkips ==
    calledStreak =>
        /\ ret.val = Cardinality({d \in ret.habit.startDate..ret.today :
                                     /\ countsForStreak(d)
                                     /\ isDoneEquivalent(ret.habit, ret.logsByDate[d])
                                     /\ \A e \in streakEnders : e < d})
        /\ (doneSkipDone => ret.val = 2)

\* C24 witness: DONE, SKIP, DONE after a day with no log, streak 2.
C24_Witness ==
    /\ calledStreak
    /\ doneSkipDone
    /\ ret.today = MaxDay
    /\ ret.logsByDate[ret.today - 3] = NoLog
    /\ ret.val = 2

\* ---------------------------------------------------------------- claims C25, C27

\* C25: in every state reachable through pin, unpin, startTimer,
\* markTaskDone, markTaskArchived, unmarkTaskDone, Unarchive, the pending
\* sweep and subtask auto-completion, a task has completedAt set if and only
\* if its status is DONE or ARCHIVED.
C25_CompletedAtIffDoneOrArchived ==
    \A id \in StoreIds :
        (db[id].completedAt # Undefined) <=> (db[id].status \in {"DONE", "ARCHIVED"})

\* C27: once no timer is active, every time entry has endAt set and each
\* task's actualSecondsTotal has grown by exactly what its timer ran, paused
\* time excluded and each session capped at 8 hours.
C27_TimerLosesNoRunningTime ==
    timerState = NoTimer =>
        /\ \A i \in 1..Len(timeEntries) : timeEntries[i].endAt # Undefined
        /\ \A id \in StoreIds :
              db[id].actualSecondsTotal
                 = seedTasks[id].actualSecondsTotal + ran.total[id]

====
